---- MODULE Spec2Model ----
(***************************************************************************)
(* Exercise-form analysis core of repit-jetson: the feedback governor     *)
(* (UniversalTTS.add_feedback / add_encouragement), the squat, lunge and   *)
(* plank frame loops with their accumulators and graders.                  *)
(*                                                                         *)
(* Time is counted in ticks of 0.2 s: 5 ticks are one second.  All calls   *)
(* of time.time() made while one frame is processed read the same tick.    *)
(*                                                                         *)
(* Error kinds are written with the English names of the ERROR_CRITERIA    *)
(* tables (squat_real_tts.py:644-653, lunge_realtime.py:425-433,           *)
(* plank.py:400-406); "Start" is the key of the start announcement.        *)
(***************************************************************************)
EXTENDS Integers, Sequences, FiniteSets, TLC

VARIABLES
    exercise,               \* which module runs: "squat", "lunge", "plank"
    pc,                     \* "harness" | "starting" | "returned_none" | "loop" | "ended"
                            \* | "joining" | "done" | "thread_done"
    now,                    \* time.time() in ticks
    start_time,             \* run_*_analysis: start_time
    last_feedback_time,     \* UniversalTTS.last_feedback_time (dict kind -> time)
    last_general_feedback,  \* UniversalTTS.last_general_feedback
    feedback_queue,         \* UniversalTTS.feedback_queue: Seq of <<message, priority>>
    attached,               \* hasattr(tts_manager, 'current_rep_errors' / 'current_hold_errors')
    current_rep_errors,     \* squat / lunge accumulator (set of kinds)
    current_hold_errors,    \* plank accumulator (Counter: kind -> count)
    stage,                  \* squat / lunge: "None" | "up" | "down"
    counter,                \* squat / lunge repetition counter
    rep_start_hip_y,        \* squat: hip height at the start of the descent
    all_rep_results,        \* squat / lunge: Seq of [rep, grade, errors]
    is_holding,             \* plank
    hold_start_time,        \* plank
    all_hold_results,       \* plank: Seq of [duration, grade, errors]
    frame,                  \* the input of the loop iteration just processed
    history,                \* scripted sessions: the frames processed so far
    emitted,                \* history: every accepted emission [kind, priority, time]
    call,                   \* history: the last governor call and what it returned
    running,                \* UniversalTTS.running
    worker_pc,              \* _feedback_worker: "none" | "check" | "get" | "speak" | "exited"
    worker_waited,          \* ticks the worker has spent in feedback_queue.get(timeout=1.0)
    join_waited,            \* ticks stop() has spent in feedback_thread.join(timeout=1.0)
    gets_after_stop,        \* history: events dequeued since running became False
    gui                     \* ExerciseAnalyzerThread: running flag, signals emitted so far

vars == <<exercise, pc, now, start_time, last_feedback_time, last_general_feedback,
          feedback_queue, attached, current_rep_errors, current_hold_errors,
          stage, counter, rep_start_hip_y, all_rep_results, is_holding,
          hold_start_time, all_hold_results, frame, history, emitted, call,
          running, worker_pc, worker_waited, join_waited, gets_after_stop, gui>>

govVars == <<last_feedback_time, last_general_feedback, feedback_queue, emitted>>

loopVars == <<stage, counter, rep_start_hip_y, all_rep_results, is_holding,
              hold_start_time, all_hold_results, frame, history>>

workerVars == <<running, worker_pc, worker_waited, join_waited, gets_after_stop>>

(***************************************************************************)
(* Bounds of the model                                                     *)
(***************************************************************************)
\* time.time() at the first call; the epoch clock is far above every interval
Epoch == 100
\* the governor harness and the sessions run for at most this many ticks
MaxTime == 25

(***************************************************************************)
(* Program constants, in ticks                                             *)
(***************************************************************************)
\* self.feedback_cooldown = 3.0
feedback_cooldown == 15
\* self.min_feedback_interval = 2.0
min_feedback_interval == 10
\* add_encouragement: 5.0 (squat, lunge), 10.0 (plank)
encouragement_interval_rep == 25
encouragement_interval_hold == 50

\* feedback_queue.get(timeout=1.0)
poll_timeout == 5
\* feedback_thread.join(timeout=1.0)
join_timeout == 5

Exercises == {"squat", "lunge", "plank"}

\* ExerciseAnalyzerThread.__init__: running = True, no signal emitted yet
NewThread == [running |-> TRUE, error_occurred |-> 0, analysis_finished |-> 0]

\* dt ticks pass: a worker blocked in get() and a caller blocked in join() have
\* waited dt ticks longer (no longer than their timeouts are counted)
Elapse(dt) ==
    /\ worker_waited' = IF worker_pc = "get" /\ worker_waited + dt <= poll_timeout
                         THEN worker_waited + dt
                         ELSE IF worker_pc = "get" THEN poll_timeout ELSE worker_waited
    /\ join_waited' = IF pc = "joining" /\ join_waited + dt <= join_timeout
                       THEN join_waited + dt
                       ELSE IF pc = "joining" THEN join_timeout ELSE join_waited
    /\ UNCHANGED <<running, worker_pc, gets_after_stop, gui>>

(***************************************************************************)
(* Tables of the governor                                                  *)
(***************************************************************************)
squat_priority_order ==
    <<"LumbarRounding", "KneeValgus", "GoodMorningSquat", "ExcessiveForwardLean",
      "HeelLift", "PelvicShift", "InsufficientDepth", "AnkleMobility">>

lunge_priority_order ==
    <<"LateralInstability", "KneeValgus", "ExcessiveKneeForward", "TorsoLean",
      "ShallowDepth", "NarrowStance", "FrontAnkleMobility">>

plank_priority_order ==
    <<"HipSag", "HipPike", "NeckMisalignment", "ElbowMisalignment", "KneeBend">>

priority_order(ex) ==
    CASE ex = "squat" -> squat_priority_order
      [] ex = "lunge" -> lunge_priority_order
      [] OTHER        -> plank_priority_order

Range(s) == {s[i] : i \in DOMAIN s}

\* feedback_messages: the kinds that have an entry (all kinds of the order)
feedback_messages(ex) == Range(priority_order(ex))

\* self.feedback_messages.get(error_type, f"{error_type}...")
Message(ex, error_type) ==
    IF error_type \in feedback_messages(ex)
    THEN <<"message", error_type>>
    ELSE <<"default", error_type>>

\* get_priority_order: the entries of the fixed order that are in errors
get_priority_order(ex, errors) ==
    SelectSeq(priority_order(ex), LAMBDA k : k \in errors)

encouragement_interval(ex) ==
    IF ex = "plank" THEN encouragement_interval_hold ELSE encouragement_interval_rep

encouragements == <<"good", "keep", "oncemore", "great">>

(***************************************************************************)
(* UniversalTTS.add_feedback, as a function of the governor's state g      *)
(* = [lft, lgf, queue, log], the accumulator acc seen through the ad hoc   *)
(* attribute (att says whether the attribute exists) and the time t.       *)
(* The result is "reject" (return False), "accept" (return True) or        *)
(* "raise" (priority_errors[0] on an empty list).                          *)
(***************************************************************************)
\* the cooldown measured against the wrong constant
CooldownGate_short(g, error_type, t) ==
    /\ error_type \in DOMAIN g.lft
    /\ t - g.lft[error_type] < min_feedback_interval

CooldownGate(g, error_type, t) ==
    /\ error_type \in DOMAIN g.lft
    /\ t - g.lft[error_type] < feedback_cooldown

\* half the minimum interval
IntervalGate_half(g, t) == 2 * (t - g.lgf) < min_feedback_interval

IntervalGate(g, t) == t - g.lgf < min_feedback_interval

\* the order read from the wrong end
PriorityGate_last(ex, error_type, att, acc) ==
    /\ att
    /\ Cardinality(acc) >= 2
    /\ get_priority_order(ex, acc) # <<>>
    /\ error_type # get_priority_order(ex, acc)[Len(get_priority_order(ex, acc))]

\* the gate from three accumulated kinds on
PriorityGate_three(ex, error_type, att, acc) ==
    /\ att
    /\ Cardinality(acc) >= 3
    /\ get_priority_order(ex, acc) # <<>>
    /\ error_type # get_priority_order(ex, acc)[1]

PriorityGate(ex, error_type, att, acc) ==
    /\ att
    /\ Cardinality(acc) >= 2
    /\ get_priority_order(ex, acc) # <<>>
    /\ error_type # get_priority_order(ex, acc)[1]

add_feedback_result(g, ex, error_type, t, att, acc) ==
    IF CooldownGate(g, error_type, t) THEN "reject"
    ELSE IF IntervalGate(g, t) THEN "reject"
    ELSE IF att /\ Cardinality(acc) >= 2 /\ get_priority_order(ex, acc) = <<>> THEN "raise"
    ELSE IF PriorityGate(ex, error_type, att, acc) THEN "reject"
    ELSE "accept"

\* the per-kind stamp left out
StampKind_none(lft, error_type, t) == lft

StampKind(lft, error_type, t) ==
    [k \in DOMAIN lft \cup {error_type} |-> IF k = error_type THEN t ELSE lft[k]]

add_feedback(g, ex, error_type, priority, t, att, acc) ==
    IF add_feedback_result(g, ex, error_type, t, att, acc) = "accept"
    THEN [lft   |-> StampKind(g.lft, error_type, t),
          lgf   |-> t,
          queue |-> Append(g.queue, <<Message(ex, error_type), priority>>),
          log   |-> Append(g.log, [kind |-> error_type, priority |-> priority, time |-> t])]
    ELSE g

\* encouragement gated by the minimum interval of the corrections
add_encouragement_accepts_min(g, ex, t) == ~(t - g.lgf < min_feedback_interval)

\* UniversalTTS.add_encouragement
add_encouragement_accepts(g, ex, t) == ~(t - g.lgf < encouragement_interval(ex))

add_encouragement(g, ex, n, t) ==
    IF add_encouragement_accepts(g, ex, t)
    THEN [lft   |-> g.lft,
          lgf   |-> t,
          queue |-> Append(g.queue, <<encouragements[(n % Len(encouragements)) + 1],
                                      "encouragement">>),
          log   |-> Append(g.log, [kind |-> "Encouragement", priority |-> "encouragement",
                                   time |-> t])]
    ELSE g

Gov == [lft |-> last_feedback_time, lgf |-> last_general_feedback,
        queue |-> feedback_queue, log |-> emitted]

SetGov(g) ==
    /\ last_feedback_time' = g.lft
    /\ last_general_feedback' = g.lgf
    /\ feedback_queue' = g.queue
    /\ emitted' = g.log

\* UniversalTTS.__init__
NewGov == [lft |-> << >>, lgf |-> 0, queue |-> << >>, log |-> << >>]

\* get_error_priority of the three graders
safety_errors(ex) ==
    CASE ex = "squat" -> {"LumbarRounding", "KneeValgus", "GoodMorningSquat"}
      [] ex = "lunge" -> {"LateralInstability", "KneeValgus", "ExcessiveKneeForward"}
      [] OTHER        -> {"HipSag", "HipPike"}

\* every kind tagged normal
get_error_priority_flat(ex, error) == "normal"

get_error_priority(ex, error) ==
    IF error \in safety_errors(ex) THEN "urgent" ELSE "normal"

(***************************************************************************)
(* The frame loop of run_squat_analysis / run_lunge_analysis /             *)
(* run_plank_analysis.  One action is one iteration of `while              *)
(* cap.isOpened()`; its input is the frame f and the time dt that passed   *)
(* since the previous iteration.                                           *)
(***************************************************************************)
\* duration_seconds of the session, in ticks
Duration == 30

\* the letters of two and of three kinds exchanged
grade_letter_swapped(num_errors) ==
    IF num_errors = 0 THEN "A"
    ELSE IF num_errors = 1 THEN "B"
    ELSE IF num_errors = 2 THEN "D"
    ELSE IF num_errors = 3 THEN "C"
    ELSE "F"

\* the if/elif chain of get_grade_from_errors
grade_letter(num_errors) ==
    IF num_errors = 0 THEN "A"
    ELSE IF num_errors = 1 THEN "B"
    ELSE IF num_errors = 2 THEN "C"
    ELSE IF num_errors = 3 THEN "D"
    ELSE "F"

\* get_grade_from_errors on the list of an accumulator that is a set already
get_grade_from_errors(errors) ==
    LET num_errors == Cardinality(errors)
    IN  grade_letter(num_errors)

\* every occurrence counted: len(errors) in place of len(set(errors))
get_grade_from_list_len(errors) ==
    LET num_errors == Len(errors)
    IN  grade_letter(num_errors)

\* get_grade_from_errors on any list: num_errors = len(set(errors))
get_grade_from_list(errors) ==
    LET num_errors == Cardinality(Range(errors))
    IN  grade_letter(num_errors)

\* the loop left at the first call that is not accepted, as if it had raised
RECURSIVE FeedbackLoop_gated(_, _, _, _, _)
FeedbackLoop_gated(g, ex, errors_in_frame, acc, t) ==
    IF errors_in_frame = << >> THEN [gov |-> g, raised |-> FALSE]
    ELSE LET error == Head(errors_in_frame)
         IN  IF error \in acc
             THEN FeedbackLoop_gated(g, ex, Tail(errors_in_frame), acc, t)
             ELSE IF add_feedback_result(g, ex, error, t, TRUE, acc) # "accept"
             THEN [gov |-> g, raised |-> TRUE]
             ELSE FeedbackLoop_gated(add_feedback(g, ex, error, get_error_priority(ex, error),
                                                  t, TRUE, acc),
                                     ex, Tail(errors_in_frame), acc, t)

\* `for error in errors_in_frame: if error not in acc: add_feedback(error, priority)`
\* acc is the live accumulator, which the loop does not change; a call that raises
\* ends the loop (the frame's try block is left).
RECURSIVE FeedbackLoop(_, _, _, _, _)
FeedbackLoop(g, ex, errors_in_frame, acc, t) ==
    IF errors_in_frame = << >> THEN [gov |-> g, raised |-> FALSE]
    ELSE LET error == Head(errors_in_frame)
         IN  IF error \in acc
             THEN FeedbackLoop(g, ex, Tail(errors_in_frame), acc, t)
             ELSE IF add_feedback_result(g, ex, error, t, TRUE, acc) = "raise"
             THEN [gov |-> g, raised |-> TRUE]
             ELSE FeedbackLoop(add_feedback(g, ex, error, get_error_priority(ex, error),
                                            t, TRUE, acc),
                               ex, Tail(errors_in_frame), acc, t)

\* the duration tested only on frames that show a pose
FrameOutcome_late(f, t) ==
    IF ~f.ret THEN "read_fail"
    ELSE IF ~f.proc_ok THEN "proc_fail"
    ELSE IF ~f.pose THEN "no_pose"
    ELSE IF t - start_time >= Duration THEN "timeout"
    ELSE "pose"

\* how an iteration leaves the top of the loop (lines 799-846 of squat_real_tts.py)
FrameOutcome(f, t) ==
    IF ~f.ret THEN "read_fail"
    ELSE IF t - start_time >= Duration THEN "timeout"
    ELSE IF ~f.proc_ok THEN "proc_fail"
    ELSE IF ~f.pose THEN "no_pose"
    ELSE "pose"

\* only a failed conversion skips the iteration
Skipped_procOnly(outcome) == outcome = "proc_fail"

\* the iterations left by `continue`: pose.process failed, or no landmarks
Skipped(outcome) == outcome \in {"proc_fail", "no_pose"}

(***************************************************************************)
(* Squat                                                                   *)
(***************************************************************************)
\* ComprehensiveSquatGrader.evaluate_errors, on the quantities its rules read
\* the heel rule outside its phase block
squat_evaluate_errors_ungated(f, phase, start_hip_y) ==
    LET lumbar == phase \in {"DESCEND", "BOTTOM", "ASCEND"} /\ f.hip < 65
        valgus == /\ phase \in {"DESCEND", "BOTTOM", "ASCEND"}
                  /\ f.ankle_dist > 0
                  /\ f.knee_dist * 100 < f.ankle_dist * 85
        goodmorning == /\ phase = "ASCEND"
                       /\ f.hip_y * 10 < start_hip_y * 9
                       /\ f.shoulder_y * 100 > start_hip_y * 95
        lean == phase \in {"DESCEND", "BOTTOM"} /\ f.torso < 45 /\ ~lumbar
        heel == f.heel_vis < 70
        pelvic == /\ phase \in {"DESCEND", "BOTTOM"}
                  /\ f.shoulder_width > 0
                  /\ f.hip_off * 100 > f.shoulder_width * 15
        depth == phase = "BOTTOM" /\ f.knee > 120
        mobility == phase = "BOTTOM" /\ f.ankle > 80
        One(b, k) == IF b THEN <<k>> ELSE << >>
    IN  One(lumbar, "LumbarRounding") \o One(valgus, "KneeValgus")
        \o One(goodmorning, "GoodMorningSquat") \o One(lean, "ExcessiveForwardLean")
        \o One(heel, "HeelLift") \o One(pelvic, "PelvicShift")
        \o One(depth, "InsufficientDepth") \o One(mobility, "AnkleMobility")

squat_evaluate_errors(f, phase, start_hip_y) ==
    LET lumbar == phase \in {"DESCEND", "BOTTOM", "ASCEND"} /\ f.hip < 65
        valgus == /\ phase \in {"DESCEND", "BOTTOM", "ASCEND"}
                  /\ f.ankle_dist > 0
                  /\ f.knee_dist * 100 < f.ankle_dist * 85
        goodmorning == /\ phase = "ASCEND"
                       /\ f.hip_y * 10 < start_hip_y * 9
                       /\ f.shoulder_y * 100 > start_hip_y * 95
        lean == phase \in {"DESCEND", "BOTTOM"} /\ f.torso < 45 /\ ~lumbar
        heel == phase \in {"DESCEND", "BOTTOM"} /\ f.heel_vis < 70
        pelvic == /\ phase \in {"DESCEND", "BOTTOM"}
                  /\ f.shoulder_width > 0
                  /\ f.hip_off * 100 > f.shoulder_width * 15
        depth == phase = "BOTTOM" /\ f.knee > 120
        mobility == phase = "BOTTOM" /\ f.ankle > 80
        One(b, k) == IF b THEN <<k>> ELSE << >>
    IN  One(lumbar, "LumbarRounding") \o One(valgus, "KneeValgus")
        \o One(goodmorning, "GoodMorningSquat") \o One(lean, "ExcessiveForwardLean")
        \o One(heel, "HeelLift") \o One(pelvic, "PelvicShift")
        \o One(depth, "InsufficientDepth") \o One(mobility, "AnkleMobility")

\* current_phase of the squat loop (lines 917-921)
squat_phase(st, knee_angle) ==
    IF st = "up" THEN (IF knee_angle < 170 THEN "ASCEND" ELSE "READY")
    ELSE IF st = "down" THEN (IF knee_angle < 90 THEN "BOTTOM" ELSE "DESCEND")
    ELSE ""

\* the knee angle above which the repetition is over, and below which it starts
squat_up_threshold == 160
squat_down_threshold == 100

\* `if knee_angle < 100 and stage == 'up'` (line 912), with the wrong threshold
squat_starts_low(knee_angle, st) == knee_angle < 90 /\ st = "up"

\* the descent counted on every low frame, whatever the stage
squat_starts_again(knee_angle, st) == knee_angle < squat_down_threshold

\* the descent started from the initial stage as well
squat_starts_any(knee_angle, st) == knee_angle < squat_down_threshold /\ st # "down"

squat_starts(knee_angle, st) == knee_angle < squat_down_threshold /\ st = "up"

\* an upright frame with no rule violated
CleanSquatFrame(knee_angle) ==
    [ret |-> TRUE, proc_ok |-> TRUE, pose |-> TRUE, knee |-> knee_angle,
     hip |-> 90, torso |-> 80, ankle |-> 70, knee_dist |-> 100, ankle_dist |-> 100,
     hip_y |-> 400, shoulder_y |-> 200, heel_vis |-> 100, hip_off |-> 0,
     shoulder_width |-> 200]

SquatKnees == {170, 165, 130, 95, 85}

SquatFrames ==
    LET clean == {CleanSquatFrame(k) : k \in SquatKnees}
    IN  clean
        \cup {[f EXCEPT !.hip = 60] : f \in clean}
        \cup {[f EXCEPT !.knee_dist = 80] : f \in clean}
        \cup {[f EXCEPT !.torso = 40] : f \in clean}
        \cup {[f EXCEPT !.ankle = 85] : f \in clean}
        \cup {[f EXCEPT !.knee_dist = 80, !.torso = 40] : f \in clean}
        \cup {[CleanSquatFrame(170) EXCEPT !.pose = FALSE],
              [CleanSquatFrame(170) EXCEPT !.proc_ok = FALSE],
              [CleanSquatFrame(170) EXCEPT !.ret = FALSE]}

SquatSteps == {5, 10}

\* what is kept of the iteration's input
FrameView(f, t, errors_in_frame, stop) ==
    [outcome |-> FrameOutcome(f, t), knee |-> f.knee, errors |-> Range(errors_in_frame),
     pose |-> f.pose, stop |-> stop]

SessionInit(ex) ==
    /\ exercise = ex
    /\ pc = "loop"
    /\ now = Epoch
    /\ start_time = Epoch
    /\ LET g == add_feedback(NewGov, ex, "Start", "encouragement", Epoch, FALSE, {})
       IN  /\ last_feedback_time = g.lft
           /\ last_general_feedback = g.lgf
           /\ feedback_queue = g.queue
           /\ emitted = g.log
    /\ attached = FALSE
    /\ current_rep_errors = {}
    /\ current_hold_errors = << >>
    /\ stage = "None" /\ counter = 0 /\ rep_start_hip_y = 0
    /\ all_rep_results = << >> /\ is_holding = FALSE /\ hold_start_time = 0
    /\ all_hold_results = << >>
    /\ frame = [outcome |-> "none", knee |-> 0, errors |-> {}, pose |-> TRUE,
                stop |-> FALSE]
    /\ history = << >>
    /\ call = [op |-> "none", kind |-> "none", priority |-> "none", ret |-> "none"]
    /\ running = TRUE /\ worker_pc = "check" /\ worker_waited = 0
    /\ join_waited = 0 /\ gets_after_stop = 0
    /\ gui = NewThread

SquatInit == SessionInit("squat")

\* the end-of-iteration stop checks (lines 1038-1051): flag, callback or key
AfterBody(stop) == IF stop THEN "ended" ELSE "loop"

SquatFrame(dt, f, stop) ==
    /\ pc = "loop" /\ exercise = "squat"
    /\ now' = now + dt
    /\ LET outcome == FrameOutcome(f, now')
           finishing == f.knee > squat_up_threshold /\ stage = "down"
           results1 == IF finishing
                       THEN Append(all_rep_results,
                                   [rep |-> counter,
                                    grade |-> get_grade_from_errors(current_rep_errors),
                                    errors |-> current_rep_errors])
                       ELSE all_rep_results
           g1 == IF finishing /\ counter > 0
                 THEN add_encouragement(Gov, "squat", counter, now')
                 ELSE Gov
           acc1 == IF finishing THEN {} ELSE current_rep_errors
           stage1 == IF f.knee > squat_up_threshold THEN "up" ELSE stage
           starting == squat_starts(f.knee, stage1)
           stage2 == IF starting THEN "down" ELSE stage1
           evaluated == stage2 \in {"up", "down"}
           errors_in_frame ==
               IF evaluated
               THEN squat_evaluate_errors(f, squat_phase(stage2, f.knee),
                                          IF starting THEN f.hip_y ELSE rep_start_hip_y)
               ELSE << >>
           fb == FeedbackLoop(g1, "squat", errors_in_frame, acc1, now')
       IN  IF outcome \in {"read_fail", "timeout"}
           THEN /\ pc' = "ended"
                /\ frame' = FrameView(f, now', << >>, stop)
                /\ UNCHANGED <<govVars, attached, current_rep_errors, stage, counter,
                               rep_start_hip_y, all_rep_results>>
           ELSE IF Skipped(outcome)
           THEN /\ pc' = "loop"
                /\ frame' = FrameView(f, now', << >>, stop)
                /\ UNCHANGED <<govVars, attached, current_rep_errors, stage, counter,
                               rep_start_hip_y, all_rep_results>>
           ELSE /\ pc' = AfterBody(stop)
                /\ frame' = FrameView(f, now', errors_in_frame, stop)
                /\ all_rep_results' = results1
                /\ stage' = stage2
                /\ counter' = IF starting THEN counter + 1 ELSE counter
                /\ rep_start_hip_y' = IF starting THEN f.hip_y ELSE rep_start_hip_y
                /\ attached' = (attached \/ evaluated)
                /\ SetGov(fb.gov)
                /\ current_rep_errors' =
                       IF fb.raised THEN acc1
                       ELSE acc1 \cup Range(errors_in_frame)
    /\ Elapse(dt)
    /\ UNCHANGED <<exercise, start_time, current_hold_errors, is_holding,
                   hold_start_time, all_hold_results, call>>

\* the open repetition never recorded
OpenRep_never(st, acc) == FALSE

\* `if stage == 'down' and current_rep_errors` (line 1054)
\* the accumulator alone decides, whatever the stage
OpenRep_any(st, acc) == acc # {}

OpenRep(st, acc) == st = "down" /\ acc # {}

\* the last repetition recorded whenever one was counted
RepFinish_again ==
    /\ pc = "ended" /\ exercise \in {"squat", "lunge"}
    /\ pc' = "done"
    /\ all_rep_results' =
           IF counter > 0
           THEN Append(all_rep_results,
                       [rep |-> counter,
                        grade |-> get_grade_from_errors(current_rep_errors),
                        errors |-> current_rep_errors])
           ELSE all_rep_results
    /\ running' = FALSE
    /\ UNCHANGED <<exercise, now, start_time, govVars, attached, current_rep_errors,
                   current_hold_errors, stage, counter, rep_start_hip_y, is_holding,
                   hold_start_time, all_hold_results, frame, call,
                   worker_pc, worker_waited, join_waited, gets_after_stop, gui>>

\* after the loop (lines 1053-1073): the open repetition, tts stop, the report
RepFinish ==
    /\ pc = "ended" /\ exercise \in {"squat", "lunge"}
    /\ pc' = "done"
    /\ all_rep_results' =
           IF OpenRep(stage, current_rep_errors)
           THEN Append(all_rep_results,
                       [rep |-> counter,
                        grade |-> get_grade_from_errors(current_rep_errors),
                        errors |-> current_rep_errors])
           ELSE all_rep_results
    /\ running' = FALSE
    /\ UNCHANGED <<exercise, now, start_time, govVars, attached, current_rep_errors,
                   current_hold_errors, stage, counter, rep_start_hip_y, is_holding,
                   hold_start_time, all_hold_results, frame, call,
                   worker_pc, worker_waited, join_waited, gets_after_stop, gui>>

SquatLoop ==
    /\ \E dt \in SquatSteps, f \in SquatFrames, stop \in BOOLEAN : SquatFrame(dt, f, stop)
    /\ UNCHANGED history

SquatEnd == RepFinish /\ UNCHANGED history

SquatNext == SquatLoop \/ SquatEnd

Spec == SquatInit /\ [][SquatNext]_vars

(***************************************************************************)
(* Scripted squat sessions: a few frames, each recorded in history.        *)
(***************************************************************************)
\* the number of frames of a scripted session
MaxHistory == 5

ScriptedSquatFrames ==
    {CleanSquatFrame(k) : k \in {170, 130, 95}}
    \cup {[CleanSquatFrame(k) EXCEPT !.hip = 60] : k \in {130, 95}}

ScriptedSquatFrame(f, stop) ==
    /\ Len(history) < MaxHistory
    /\ SquatFrame(1, f, stop)
    /\ history' = Append(history, [knee |-> f.knee, clean |-> f = CleanSquatFrame(f.knee)])

ScriptedSquatNext ==
    \/ \E f \in ScriptedSquatFrames, stop \in BOOLEAN : ScriptedSquatFrame(f, stop)
    \/ SquatEnd

SpecSquatScript == SquatInit /\ [][ScriptedSquatNext]_vars

(***************************************************************************)
(* Lunge                                                                   *)
(***************************************************************************)
\* front_leg: the leg with the smaller knee angle (line 635)
front_leg(f) == IF f.left_knee < f.right_knee THEN "left" ELSE "right"

front_knee(f) == IF front_leg(f) = "left" THEN f.left_knee ELSE f.right_knee
back_knee(f) == IF front_leg(f) = "left" THEN f.right_knee ELSE f.left_knee

\* ComprehensiveLungeGrader.evaluate_errors, on the quantities its rules read
lunge_evaluate_errors(f) ==
    LET unstable == \/ ~(165 <= f.shoulder_line /\ f.shoulder_line <= 195)
                    \/ ~(165 <= f.hip_line /\ f.hip_line <= 195)
        valgus == IF front_leg(f) = "left"
                  THEN f.left_knee_x < f.left_hip_x - 25
                  ELSE f.right_knee_x > f.right_hip_x + 25
        forward == IF front_leg(f) = "left"
                   THEN f.left_knee_x > f.left_ankle_x + 35
                   ELSE f.right_knee_x < f.right_ankle_x - 35
        lean == f.torso < 65
        shallow_front == front_knee(f) > 115
        shallow_back == back_knee(f) > 115
        ankle_dist == IF f.left_ankle_x >= f.right_ankle_x
                      THEN f.left_ankle_x - f.right_ankle_x
                      ELSE f.right_ankle_x - f.left_ankle_x
        narrow == f.shoulder_dist > 0 /\ ankle_dist * 100 < f.shoulder_dist * 15
        mobility == f.front_ankle > 90
        One(b, k) == IF b THEN <<k>> ELSE << >>
    IN  One(unstable, "LateralInstability") \o One(valgus, "KneeValgus")
        \o One(forward, "ExcessiveKneeForward") \o One(lean, "TorsoLean")
        \o One(shallow_front, "ShallowDepth") \o One(shallow_back, "ShallowDepth")
        \o One(narrow, "NarrowStance") \o One(mobility, "FrontAnkleMobility")

lunge_down_threshold == 100
lunge_up_threshold == 160

\* a frame with no lunge rule violated when both knees are bent
CleanLungeFrame(lk, rk) ==
    [ret |-> TRUE, proc_ok |-> TRUE, pose |-> TRUE, knee |-> 0,
     left_knee |-> lk, right_knee |-> rk,
     torso |-> 80, front_ankle |-> 80, shoulder_line |-> 180, hip_line |-> 180,
     left_knee_x |-> 300, left_hip_x |-> 300, left_ankle_x |-> 300,
     right_knee_x |-> 200, right_hip_x |-> 200, right_ankle_x |-> 200,
     shoulder_dist |-> 100]

LungeFrames ==
    {CleanLungeFrame(170, 170), CleanLungeFrame(90, 170), CleanLungeFrame(170, 90),
     CleanLungeFrame(130, 130), CleanLungeFrame(90, 95),
     [CleanLungeFrame(90, 95) EXCEPT !.torso = 60],
     [CleanLungeFrame(170, 170) EXCEPT !.pose = FALSE],
     [CleanLungeFrame(170, 170) EXCEPT !.ret = FALSE]}

LungeInit == SessionInit("lunge")

\* one iteration of the loop of run_lunge_analysis (lines 576-797)
LungeFrame(dt, f, stop) ==
    /\ pc = "loop" /\ exercise = "lunge"
    /\ now' = now + dt
    /\ LET outcome == FrameOutcome(f, now')
           starting == /\ (front_knee(f) < lunge_down_threshold
                           \/ back_knee(f) < lunge_down_threshold)
                       /\ stage = "up"
           stage1 == IF starting THEN "down" ELSE stage
           acc1 == IF starting THEN {} ELSE current_rep_errors
           finishing == /\ front_knee(f) > lunge_up_threshold
                        /\ back_knee(f) > lunge_up_threshold
                        /\ stage1 = "down"
           stage2 == IF finishing THEN "up" ELSE stage1
           counter2 == IF finishing THEN counter + 1 ELSE counter
           results2 == IF finishing
                       THEN Append(all_rep_results,
                                   [rep |-> counter2,
                                    grade |-> get_grade_from_errors(acc1),
                                    errors |-> acc1])
                       ELSE all_rep_results
           g1 == IF finishing /\ counter2 > 0
                 THEN add_encouragement(Gov, "lunge", counter2, now')
                 ELSE Gov
           evaluated == stage2 = "down"
           errors_in_frame == IF evaluated THEN lunge_evaluate_errors(f) ELSE << >>
           fb == FeedbackLoop(g1, "lunge", errors_in_frame, acc1, now')
       IN  IF outcome \in {"read_fail", "timeout"}
           THEN /\ pc' = "ended"
                /\ frame' = FrameView([f EXCEPT !.knee = front_knee(f)], now', << >>, stop)
                /\ UNCHANGED <<govVars, attached, current_rep_errors, stage, counter,
                               all_rep_results>>
           ELSE IF Skipped(outcome)
           THEN /\ pc' = "loop"
                /\ frame' = FrameView([f EXCEPT !.knee = front_knee(f)], now', << >>, stop)
                /\ UNCHANGED <<govVars, attached, current_rep_errors, stage, counter,
                               all_rep_results>>
           ELSE /\ pc' = AfterBody(stop)
                /\ frame' = FrameView([f EXCEPT !.knee = front_knee(f)], now',
                                      errors_in_frame, stop)
                /\ all_rep_results' = results2
                /\ stage' = stage2
                /\ counter' = counter2
                /\ attached' = (attached \/ evaluated)
                /\ SetGov(fb.gov)
                /\ current_rep_errors' =
                       IF fb.raised \/ ~evaluated THEN acc1
                       ELSE acc1 \cup Range(errors_in_frame)
    /\ Elapse(dt)
    /\ UNCHANGED <<exercise, start_time, current_hold_errors, rep_start_hip_y, is_holding,
                   hold_start_time, all_hold_results, call>>

LungeSteps == {5}

ScriptedLungeFrame(dt, f, stop) ==
    /\ Len(history) < MaxHistory
    /\ LungeFrame(dt, f, stop)
    /\ history' = Append(history, [knee |-> front_knee(f), back |-> back_knee(f),
                                   outcome |-> FrameOutcome(f, now')])

LungeNext ==
    \/ \E dt \in LungeSteps, f \in LungeFrames, stop \in BOOLEAN :
          ScriptedLungeFrame(dt, f, stop)
    \/ SquatEnd

SpecLunge == LungeInit /\ [][LungeNext]_vars

(***************************************************************************)
(* Plank                                                                   *)
(***************************************************************************)
\* ComprehensivePlankGrader.evaluate_errors, on the quantities its rules read
\* the sag rule returning a kind the governor's tables do not have
plank_evaluate_errors_renamed(f) ==
    LET pike == f.body < 150
        neck == ~(150 <= f.neck /\ f.neck <= 210)
        One(b, k) == IF b THEN <<k>> ELSE << >>
    IN  One(pike, "HipDrop") \o One(neck, "NeckMisalignment")

plank_evaluate_errors(f) ==
    LET sag == f.body > 200
        pike == f.body < 150
        neck == ~(150 <= f.neck /\ f.neck <= 210)
        elbow == \/ ~(60 <= f.arm /\ f.arm <= 120)
                 \/ f.elbow_off * 100 > f.shoulder_hip_dist * 40
        bend == f.leg < 150
        One(b, k) == IF b THEN <<k>> ELSE << >>
    IN  One(sag, "HipSag") \o One(pike, "HipPike") \o One(neck, "NeckMisalignment")
        \o One(elbow, "ElbowMisalignment") \o One(bend, "KneeBend")

\* the postural gate (line 608)
is_plank_pose(f) == f.shoulder_y < f.hip_y + 50

\* a hold is recorded when it lasted more than this (line 654: hold_duration > 1)
plank_min_hold == 5

\* the minimum compared with >= instead of >
HoldLongEnough_orEqual(hold_duration) == hold_duration >= plank_min_hold

HoldLongEnough(hold_duration) == hold_duration > plank_min_hold

\* Counter.update(errors_in_frame)
\* the Counter rebuilt from the frame alone: kinds of earlier frames lost
CounterUpdate_replace(c, errors_in_frame) ==
    [k \in Range(errors_in_frame) |->
        Cardinality({i \in DOMAIN errors_in_frame : errors_in_frame[i] = k})]

CounterUpdate(c, errors_in_frame) ==
    [k \in DOMAIN c \cup Range(errors_in_frame) |->
        (IF k \in DOMAIN c THEN c[k] ELSE 0)
        + Cardinality({i \in DOMAIN errors_in_frame : errors_in_frame[i] = k})]

\* 'errors': current_hold_errors stores the Counter itself, not a copy: every
\* stored result shows the Counter's present contents
Aliased(results, c) == [i \in DOMAIN results |-> [results[i] EXCEPT !.errors = c]]

HoldResult(hold_duration, c) ==
    [duration |-> hold_duration, grade |-> get_grade_from_errors(DOMAIN c), errors |-> c]

CleanPlankFrame ==
    [ret |-> TRUE, proc_ok |-> TRUE, pose |-> TRUE, knee |-> 0,
     shoulder_y |-> 300, hip_y |-> 300, body |-> 175, neck |-> 170, arm |-> 90,
     leg |-> 170, elbow_off |-> 10, shoulder_hip_dist |-> 200]

PlankFrames ==
    {CleanPlankFrame,
     [CleanPlankFrame EXCEPT !.body = 140],
     [CleanPlankFrame EXCEPT !.shoulder_y = 400],
     [CleanPlankFrame EXCEPT !.pose = FALSE],
     [CleanPlankFrame EXCEPT !.ret = FALSE]}

PlankSteps == {4, 5, 15}

PlankInit == SessionInit("plank")

\* one iteration of the loop of run_plank_analysis (lines 548-767)
PlankFrame(dt, f, stop) ==
    /\ pc = "loop" /\ exercise = "plank"
    /\ now' = now + dt
    /\ LET outcome == FrameOutcome(f, now')
           gate == is_plank_pose(f)
           entering == gate /\ ~is_holding
           c1 == IF entering THEN << >> ELSE current_hold_errors
           errors_in_frame == IF gate THEN plank_evaluate_errors(f) ELSE << >>
           fb == FeedbackLoop(Gov, "plank", errors_in_frame, DOMAIN c1, now')
           c2 == IF gate /\ ~fb.raised THEN CounterUpdate(c1, errors_in_frame) ELSE c1
           leaving == ~gate /\ is_holding
           hold_duration == now' - hold_start_time
       IN  IF outcome \in {"read_fail", "timeout"}
           THEN /\ pc' = "ended"
                /\ frame' = FrameView(f, now', << >>, stop)
                /\ UNCHANGED <<govVars, attached, current_hold_errors, is_holding,
                               hold_start_time, all_hold_results>>
           ELSE IF Skipped(outcome)
           THEN /\ pc' = "loop"
                /\ frame' = FrameView(f, now', << >>, stop)
                /\ UNCHANGED <<govVars, attached, current_hold_errors, is_holding,
                               hold_start_time, all_hold_results>>
           ELSE /\ pc' = AfterBody(stop)
                /\ frame' = FrameView(f, now', errors_in_frame, stop)
                /\ is_holding' = gate
                /\ hold_start_time' = IF entering THEN now' ELSE hold_start_time
                /\ attached' = (attached \/ gate)
                /\ SetGov(fb.gov)
                /\ current_hold_errors' = c2
                /\ all_hold_results' =
                       IF leaving /\ HoldLongEnough(hold_duration)
                       THEN Append(all_hold_results, HoldResult(hold_duration, c2))
                       ELSE Aliased(all_hold_results, c2)
    /\ Elapse(dt)
    /\ UNCHANGED <<exercise, start_time, current_rep_errors, stage, counter,
                   rep_start_hip_y, all_rep_results, history, call>>

\* after the loop (lines 769-794): the open hold, tts stop, the report
PlankFinish ==
    /\ pc = "ended" /\ exercise = "plank"
    /\ pc' = "done"
    /\ all_hold_results' =
           IF is_holding /\ HoldLongEnough(now - hold_start_time)
           THEN Append(all_hold_results,
                       HoldResult(now - hold_start_time, current_hold_errors))
           ELSE all_hold_results
    /\ running' = FALSE
    /\ UNCHANGED <<exercise, now, start_time, govVars, attached, current_rep_errors,
                   current_hold_errors, stage, counter, rep_start_hip_y, all_rep_results,
                   is_holding, hold_start_time, frame, history, call,
                   worker_pc, worker_waited, join_waited, gets_after_stop, gui>>

PlankNext ==
    \/ \E dt \in PlankSteps, f \in PlankFrames, stop \in BOOLEAN : PlankFrame(dt, f, stop)
    \/ PlankFinish

SpecPlank == PlankInit /\ [][PlankNext]_vars

(***************************************************************************)
(* A session of any of the three exercises                                 *)
(***************************************************************************)
SessionAnyInit == \E ex \in Exercises : SessionInit(ex)

SessionSteps == {5, 10}

SessionSquatFrames ==
    {CleanSquatFrame(k) : k \in {170, 130, 95}}
    \cup {[CleanSquatFrame(95) EXCEPT !.hip = 60],
          [CleanSquatFrame(95) EXCEPT !.knee_dist = 80, !.torso = 40],
          [CleanSquatFrame(170) EXCEPT !.pose = FALSE],
          [CleanSquatFrame(170) EXCEPT !.proc_ok = FALSE],
          [CleanSquatFrame(170) EXCEPT !.ret = FALSE]}

SessionSquatLoop ==
    /\ \E dt \in SessionSteps, f \in SessionSquatFrames, stop \in BOOLEAN :
          SquatFrame(dt, f, stop)
    /\ UNCHANGED history

LungeLoop ==
    /\ \E dt \in SessionSteps, f \in LungeFrames, stop \in BOOLEAN : LungeFrame(dt, f, stop)
    /\ UNCHANGED history

PlankLoop ==
    \E dt \in SessionSteps, f \in PlankFrames, stop \in BOOLEAN : PlankFrame(dt, f, stop)

SessionNext == SessionSquatLoop \/ LungeLoop \/ PlankLoop \/ SquatEnd \/ PlankFinish

SpecSession == SessionAnyInit /\ [][SessionNext]_vars

\* frames keep arriving and the code after the loop runs
SpecSessionLive == SpecSession /\ WF_vars(SessionNext)

NoCall == [op |-> "none", kind |-> "none", priority |-> "none", ret |-> "none"]

(***************************************************************************)
(* ExerciseAnalyzerThread.run: the run function of the exercise is called, *)
(* acquires the camera or fails to, runs its session; the thread then      *)
(* emits analysis_finished or error_occurred.  ExerciseAnalyzerThread.stop *)
(* may clear the thread's running flag at any moment.                      *)
(***************************************************************************)
\* the parameters of run_squat_analysis / run_lunge_analysis / run_plank_analysis
run_parameters(ex) == IF ex = "squat" THEN 3 ELSE 2

\* the call passes duration_seconds, should_stop and frame_callback
thread_arguments == 3

StartInit ==
    /\ exercise \in Exercises
    /\ pc = "starting"
    /\ now = Epoch
    /\ start_time = Epoch
    /\ last_feedback_time = << >>
    /\ last_general_feedback = 0
    /\ feedback_queue = << >>
    /\ emitted = << >>
    /\ attached = FALSE
    /\ current_rep_errors = {}
    /\ current_hold_errors = << >>
    /\ stage = "None" /\ counter = 0 /\ rep_start_hip_y = 0
    /\ all_rep_results = << >> /\ is_holding = FALSE /\ hold_start_time = 0
    /\ all_hold_results = << >>
    /\ frame = [outcome |-> "none", knee |-> 0, errors |-> {}, pose |-> TRUE,
                stop |-> FALSE]
    /\ history = << >>
    /\ call = NoCall
    /\ running = FALSE /\ worker_pc = "none" /\ worker_waited = 0
    /\ join_waited = 0 /\ gets_after_stop = 0
    /\ gui = NewThread

\* what no step of the start-up touches
startVars == <<exercise, attached, current_rep_errors, current_hold_errors, loopVars,
               call, worker_waited, join_waited, gets_after_stop>>

\* the call with three arguments raises TypeError in a function of two
\* parameters; run() catches it, emits error_occurred and returns
CallRaises ==
    /\ pc = "starting"
    /\ run_parameters(exercise) < thread_arguments
    /\ pc' = "thread_done"
    /\ gui' = [gui EXCEPT !.error_occurred = @ + 1]
    /\ UNCHANGED <<startVars, now, start_time, govVars, running, worker_pc>>

\* the camera does not open, the test frame is not read, or the initialization
\* raises: the run function returns (None, None)
AcquireFails ==
    /\ pc = "starting"
    /\ run_parameters(exercise) >= thread_arguments
    /\ pc' = "returned_none"
    /\ UNCHANGED <<startVars, now, start_time, govVars, running, worker_pc, gui>>

\* the camera is acquired: UniversalTTS() starts its worker, the variables are
\* initialized and the start announcement is made
RunStarts ==
    /\ pc = "starting"
    /\ run_parameters(exercise) >= thread_arguments
    /\ pc' = "loop"
    /\ start_time' = now
    /\ SetGov(add_feedback(NewGov, exercise, "Start", "encouragement", now, FALSE, {}))
    /\ running' = TRUE
    /\ worker_pc' = "check"
    /\ UNCHANGED <<startVars, now, gui>>

\* the frame loop with stop_callback = ExerciseAnalyzerThread.should_stop
ThreadLoop ==
    /\ \E dt \in SessionSteps, f \in SessionSquatFrames : SquatFrame(dt, f, ~gui.running)
    /\ UNCHANGED history

\* after the run function returned (lines 156-163)
ThreadReturns ==
    /\ pc \in {"returned_none", "done"}
    /\ pc' = "thread_done"
    /\ gui' = IF ~gui.running THEN gui
              ELSE IF pc = "done" THEN [gui EXCEPT !.analysis_finished = @ + 1]
              ELSE [gui EXCEPT !.error_occurred = @ + 1]
    /\ UNCHANGED <<startVars, now, start_time, govVars, running, worker_pc>>

\* ExerciseAnalyzerThread.stop(), called while the thread is running
ThreadStop ==
    /\ pc # "thread_done"
    /\ gui.running
    /\ gui' = [gui EXCEPT !.running = FALSE]
    /\ UNCHANGED <<startVars, pc, now, start_time, govVars, running, worker_pc>>

StartNext ==
    \/ CallRaises
    \/ AcquireFails
    \/ RunStarts
    \/ ThreadLoop
    \/ SquatEnd
    \/ ThreadReturns
    \/ ThreadStop

SpecStart == StartInit /\ [][StartNext]_vars

(***************************************************************************)
(* The governor driven directly: any kind, any accumulator, any time.      *)
(***************************************************************************)
\* the kinds the harness uses: the first three of the order and "Start"
HarnessKinds(ex) == {priority_order(ex)[i] : i \in 1..3} \cup {"Start"}

HarnessSteps == {5, 9}

IdleLoop ==
    /\ stage = "None" /\ counter = 0 /\ rep_start_hip_y = 0
    /\ all_rep_results = << >> /\ is_holding = FALSE /\ hold_start_time = 0
    /\ all_hold_results = << >> /\ frame = "none" /\ history = << >>

GovInit ==
    /\ exercise \in Exercises
    /\ pc = "harness"
    /\ now = Epoch
    /\ start_time = Epoch
    /\ last_feedback_time = << >>
    /\ last_general_feedback = 0
    /\ feedback_queue = << >>
    /\ emitted = << >>
    /\ attached = FALSE
    /\ current_rep_errors = {}
    /\ current_hold_errors = << >>
    /\ IdleLoop
    /\ call = NoCall
    /\ running = TRUE /\ worker_pc = "check" /\ worker_waited = 0
    /\ join_waited = 0 /\ gets_after_stop = 0
    /\ gui = NewThread

\* the accumulator the governor reads through its ad hoc attribute
Accumulated == IF exercise = "plank" THEN DOMAIN current_hold_errors ELSE current_rep_errors

GovTick(dt) ==
    /\ pc = "harness"
    /\ now + dt <= Epoch + MaxTime
    /\ now' = now + dt
    /\ call' = NoCall
    /\ Elapse(dt)
    /\ UNCHANGED <<exercise, pc, start_time, govVars, attached, current_rep_errors,
                   current_hold_errors, loopVars>>

\* tts_manager.current_rep_errors = current_rep_errors, with any contents
GovAttach(acc) ==
    /\ pc = "harness"
    /\ attached' = TRUE
    /\ IF exercise = "plank"
       THEN /\ current_hold_errors' = [k \in acc |-> 1]
            /\ UNCHANGED current_rep_errors
       ELSE /\ current_rep_errors' = acc
            /\ UNCHANGED current_hold_errors
    /\ call' = NoCall
    /\ UNCHANGED <<exercise, pc, now, start_time, govVars, loopVars, workerVars, gui>>

GovAddFeedback(error_type) ==
    /\ pc = "harness"
    /\ LET priority == IF error_type = "Start" THEN "encouragement"
                       ELSE get_error_priority(exercise, error_type)
       IN /\ SetGov(add_feedback(Gov, exercise, error_type, priority, now,
                                 attached, Accumulated))
          /\ call' = [op |-> "add_feedback", kind |-> error_type, priority |-> priority,
                      ret |-> add_feedback_result(Gov, exercise, error_type, now,
                                                  attached, Accumulated)]
    /\ UNCHANGED <<exercise, pc, now, start_time, attached, current_rep_errors,
                   current_hold_errors, loopVars, workerVars, gui>>

GovAddEncouragement(n) ==
    /\ pc = "harness"
    /\ SetGov(add_encouragement(Gov, exercise, n, now))
    /\ call' = [op |-> "add_encouragement", kind |-> "Encouragement",
                priority |-> "encouragement",
                ret |-> IF add_encouragement_accepts(Gov, exercise, now)
                        THEN "accept" ELSE "reject"]
    /\ UNCHANGED <<exercise, pc, now, start_time, attached, current_rep_errors,
                   current_hold_errors, loopVars, workerVars, gui>>

GovNext ==
    \/ \E dt \in HarnessSteps : GovTick(dt)
    \/ \E acc \in SUBSET (HarnessKinds(exercise) \ {"Start"}) : GovAttach(acc)
    \/ \E k \in HarnessKinds(exercise) : GovAddFeedback(k)
    \/ \E n \in {1} : GovAddEncouragement(n)

SpecGov == GovInit /\ [][GovNext]_vars

(***************************************************************************)
(* The feedback worker thread (_feedback_worker) and UniversalTTS.stop().  *)
(* The worker is at its `while self.running` test ("check"), inside        *)
(* feedback_queue.get(timeout=1.0) ("get"), inside _speak_feedback         *)
(* ("speak") or past its loop ("exited").                                  *)
(***************************************************************************)
\* everything the worker thread and the clock leave alone
coreVars == <<exercise, start_time, last_feedback_time, last_general_feedback, emitted,
              attached, current_rep_errors, current_hold_errors, loopVars, gui>>

\* a queue that holds two events and makes put() wait when full
put_ready_bounded(q) == Len(q) < 2

\* queue.Queue() has no maxsize: put() never waits
put_ready(q) == TRUE

\* the running flag never read
WorkerCheck_ignore ==
    /\ worker_pc = "check"
    /\ worker_pc' = "get"
    /\ worker_waited' = 0
    /\ UNCHANGED <<coreVars, pc, now, call, feedback_queue, running, join_waited,
                   gets_after_stop>>

\* `while self.running:`
WorkerCheck ==
    /\ worker_pc = "check"
    /\ worker_pc' = IF running THEN "get" ELSE "exited"
    /\ worker_waited' = 0
    /\ UNCHANGED <<coreVars, pc, now, call, feedback_queue, running, join_waited,
                   gets_after_stop>>

\* the dequeue that also resets the governor's general timestamp
WorkerGet_writes ==
    /\ worker_pc = "get" /\ feedback_queue # << >>
    /\ feedback_queue' = Tail(feedback_queue)
    /\ worker_pc' = "speak"
    /\ worker_waited' = 0
    /\ gets_after_stop' = IF running THEN gets_after_stop ELSE gets_after_stop + 1
    /\ last_general_feedback' = 0
    /\ UNCHANGED <<exercise, start_time, last_feedback_time, emitted, attached,
                   current_rep_errors, current_hold_errors, loopVars, gui,
                   pc, now, call, running, join_waited>>

\* feedback_queue.get(timeout=1.0) returns an event; _speak_feedback starts
WorkerGet ==
    /\ worker_pc = "get" /\ feedback_queue # << >>
    /\ feedback_queue' = Tail(feedback_queue)
    /\ worker_pc' = "speak"
    /\ worker_waited' = 0
    /\ gets_after_stop' = IF running THEN gets_after_stop ELSE gets_after_stop + 1
    /\ UNCHANGED <<coreVars, pc, now, call, running, join_waited>>

\* get() raises queue.Empty after its timeout: `continue`
WorkerEmpty ==
    /\ worker_pc = "get" /\ feedback_queue = << >>
    /\ worker_waited >= poll_timeout
    /\ worker_pc' = "check"
    /\ worker_waited' = 0
    /\ UNCHANGED <<coreVars, pc, now, call, feedback_queue, running, join_waited,
                   gets_after_stop>>

\* _speak_feedback returns (then task_done()) or raises (then the message is
\* printed): either way the worker is back at its loop test
WorkerSpoke ==
    /\ worker_pc = "speak"
    /\ worker_pc' = "check"
    /\ UNCHANGED <<coreVars, pc, now, call, feedback_queue, running, worker_waited,
                   join_waited, gets_after_stop>>

\* stop(): self.running = False, then feedback_thread.join(timeout=1.0) starts
TtsStop ==
    /\ pc = "harness"
    /\ pc' = "joining"
    /\ running' = FALSE
    /\ join_waited' = 0
    /\ call' = NoCall
    /\ UNCHANGED <<coreVars, now, feedback_queue, worker_pc, worker_waited,
                   gets_after_stop>>

\* a join without timeout
JoinReturn_untimed ==
    /\ pc = "joining"
    /\ worker_pc = "exited"
    /\ pc' = "done"
    /\ UNCHANGED <<coreVars, now, call, feedback_queue, workerVars>>

\* join(timeout=1.0) returns: the thread ended or the timeout passed; then
\* cap.release(), out.release() and save_report() run
JoinReturn ==
    /\ pc = "joining"
    /\ worker_pc = "exited" \/ join_waited >= join_timeout
    /\ pc' = "done"
    /\ UNCHANGED <<coreVars, now, call, feedback_queue, workerVars>>

WorkerSteps == {5}

\* time passes; join() does not outlast its timeout.  Past Epoch + MaxTime the
\* clock of the governor is no longer advanced, the two waits still are.
WorkerTick(dt) ==
    /\ pc = "joining" => join_waited + dt <= join_timeout
    /\ now' = IF now + dt <= Epoch + MaxTime THEN now + dt ELSE now
    /\ Elapse(dt)
    /\ call' = NoCall
    /\ UNCHANGED <<coreVars, pc, feedback_queue>>

\* the kinds the frame loop reports in this harness
WorkerKinds == {"LumbarRounding", "KneeValgus"}

WorkerAddFeedback(error_type) ==
    /\ add_feedback_result(Gov, exercise, error_type, now, attached, Accumulated) = "accept"
           => put_ready(feedback_queue)
    /\ GovAddFeedback(error_type)

WorkerAddEncouragement ==
    /\ add_encouragement_accepts(Gov, exercise, now) => put_ready(feedback_queue)
    /\ GovAddEncouragement(1)

WorkerInit == GovInit /\ exercise = "squat"

WorkerNext ==
    \/ \E dt \in WorkerSteps : WorkerTick(dt)
    \/ \E k \in WorkerKinds : WorkerAddFeedback(k)
    \/ WorkerAddEncouragement
    \/ WorkerCheck
    \/ WorkerGet
    \/ WorkerEmpty
    \/ WorkerSpoke
    \/ TtsStop
    \/ JoinReturn

SpecWorker == WorkerInit /\ [][WorkerNext]_vars

\* the main thread is scheduled and time passes; the worker may be stuck
SpecTeardownLive ==
    SpecWorker /\ WF_vars(\E dt \in WorkerSteps : WorkerTick(dt)) /\ WF_vars(JoinReturn)

\* the worker is scheduled too and every speech operation returns
SpecWorkerLive ==
    /\ SpecTeardownLive
    /\ WF_vars(WorkerCheck) /\ WF_vars(WorkerGet) /\ WF_vars(WorkerEmpty)
    /\ WF_vars(WorkerSpoke)

(***************************************************************************)
(* A squat session of a few frames with the feedback worker beside it: the *)
(* frames arrive early or late, the worker is fast, slow or stuck.         *)
(***************************************************************************)
\* the number of frames of such a session
MaxDelivery == 4

DeliverySteps == {2, 10}

DeliveryFrames ==
    {CleanSquatFrame(170), CleanSquatFrame(95),
     [CleanSquatFrame(95) EXCEPT !.hip = 60],
     [CleanSquatFrame(95) EXCEPT !.knee_dist = 80, !.torso = 40]}

DeliveryFrame(dt, f, stop) ==
    /\ Len(history) < MaxDelivery
    /\ SquatFrame(dt, f, stop)
    /\ history' = Append(history, [f |-> f, outcome |-> FrameOutcome(f, now')])

DeliveryNext ==
    \/ \E dt \in DeliverySteps, f \in DeliveryFrames, stop \in BOOLEAN :
          DeliveryFrame(dt, f, stop)
    \/ SquatEnd
    \/ WorkerCheck
    \/ WorkerGet
    \/ WorkerEmpty
    \/ WorkerSpoke

SpecDelivery == SquatInit /\ [][DeliveryNext]_vars

(***************************************************************************)
(* Governor properties (SpecGov)                                           *)
(***************************************************************************)
LastEmitted == emitted[Len(emitted)]

\* position of a kind in the exercise's fixed order
PriorityIndex(ex, k) == CHOOSE i \in DOMAIN priority_order(ex) : priority_order(ex)[i] = k

\* the accumulated kind that comes first in the fixed order
TopAccumulated(ex, acc) ==
    CHOOSE k \in acc : \A m \in acc : PriorityIndex(ex, k) <= PriorityIndex(ex, m)

IsFeedbackCall(c) == c.op = "add_feedback"

\* C1: any two accepted emissions (corrections or encouragements) of a session are
\* at least min_feedback_interval apart, and an add_feedback call made less than
\* min_feedback_interval after the last accepted emission returns False and
\* enqueues nothing.
C1_MinInterval ==
    /\ [](\A i, j \in DOMAIN emitted :
             i < j => emitted[j].time - emitted[i].time >= min_feedback_interval)
    /\ [][(/\ IsFeedbackCall(call')
           /\ emitted # << >>
           /\ now - LastEmitted.time < min_feedback_interval)
          => (call'.ret = "reject" /\ feedback_queue' = feedback_queue)]_vars

\* an add_feedback call rejected by the minimum interval alone
C1_Witness ==
    /\ IsFeedbackCall(call) /\ call.ret = "reject"
    /\ emitted # << >>
    /\ now - LastEmitted.time \in 1..(min_feedback_interval - 1)
    /\ call.kind \notin DOMAIN last_feedback_time
    /\ ~attached

\* C2: after add_feedback accepted kind E at time t, every add_feedback(E) call at
\* a time t' with t' - t < feedback_cooldown returns False and enqueues nothing.
C2_Cooldown ==
    [][(/\ IsFeedbackCall(call')
        /\ \E i \in DOMAIN emitted :
              /\ emitted[i].kind = call'.kind
              /\ now - emitted[i].time < feedback_cooldown)
       => (call'.ret = "reject" /\ feedback_queue' = feedback_queue)]_vars

\* a call rejected by the cooldown alone: the minimum interval has passed
C2_Witness ==
    /\ IsFeedbackCall(call) /\ call.ret = "reject"
    /\ call.kind \in DOMAIN last_feedback_time
    /\ now - last_feedback_time[call.kind] < feedback_cooldown
    /\ now - last_general_feedback >= min_feedback_interval
    /\ ~attached

\* C3: while the attached accumulator holds 2 or more kinds, an add_feedback call
\* for a kind other than the first accumulated kind of the fixed order returns
\* False and enqueues nothing.
C3_PriorityOnly ==
    [][(/\ IsFeedbackCall(call')
        /\ attached
        /\ Cardinality(Accumulated) >= 2
        /\ call'.kind # TopAccumulated(exercise, Accumulated))
       => (call'.ret = "reject" /\ feedback_queue' = feedback_queue
           /\ emitted' = emitted)]_vars

\* an accumulated kind that passes both time gates and is rejected by priority
C3_Witness ==
    /\ IsFeedbackCall(call) /\ call.ret = "reject"
    /\ attached /\ Cardinality(Accumulated) >= 2
    /\ call.kind \in Accumulated
    /\ call.kind # TopAccumulated(exercise, Accumulated)
    /\ now - last_general_feedback >= min_feedback_interval
    /\ call.kind \notin DOMAIN last_feedback_time

\* C4: an accepted add_feedback call enqueues exactly one (message, priority)
\* event and stamps the kind and the general timestamp with the current time; a
\* rejected call leaves the queue and all timestamps unchanged.
C4_AcceptEffect ==
    [][IsFeedbackCall(call') =>
         IF call'.ret = "accept"
         THEN /\ feedback_queue' =
                   Append(feedback_queue, <<Message(exercise, call'.kind), call'.priority>>)
              /\ call'.kind \in DOMAIN last_feedback_time'
              /\ last_feedback_time'[call'.kind] = now
              /\ \A k \in DOMAIN last_feedback_time' \ {call'.kind} :
                    k \in DOMAIN last_feedback_time
                    /\ last_feedback_time'[k] = last_feedback_time[k]
              /\ last_general_feedback' = now
         ELSE /\ feedback_queue' = feedback_queue
              /\ last_feedback_time' = last_feedback_time
              /\ last_general_feedback' = last_general_feedback]_vars

\* an accepted correction behind an earlier emission, the top accumulated kind
C4_Witness ==
    /\ IsFeedbackCall(call) /\ call.ret = "accept"
    /\ Len(feedback_queue) >= 2
    /\ attached /\ Cardinality(Accumulated) >= 2
    /\ last_feedback_time[call.kind] = now

(***************************************************************************)
(* Squat properties                                                        *)
(***************************************************************************)
\* the recorded knee angles start at `top`, fall to `bottom` and no lower, and
\* rise back to `top`
GoesDownUp(h, top, bottom) ==
    /\ Len(h) >= 3
    /\ h[1].knee = top /\ h[Len(h)].knee = top
    /\ \E m \in 2..(Len(h) - 1) :
          /\ h[m].knee = bottom
          /\ \A i \in 1..(m - 1) : h[i].knee >= h[i + 1].knee
          /\ \A i \in m..(Len(h) - 1) : h[i].knee <= h[i + 1].knee

AllClean(h) == \A i \in DOMAIN h : h[i].clean

\* C5: a squat session whose knee angle goes 170 -> 95 -> 170 with no rule
\* violated in any frame has exactly one RepResult, of grade A with no errors,
\* and a repetition count of 1.
C5_ScenarioA ==
    (exercise = "squat" /\ GoesDownUp(history, 170, 95) /\ AllClean(history))
    => /\ all_rep_results = <<[rep |-> 1, grade |-> "A", errors |-> {}]>>
       /\ counter = 1

\* the five-frame version of the scenario, finished
C5_Witness ==
    /\ Len(history) = 5 /\ history[2].knee = 130 /\ history[4].knee = 130
    /\ GoesDownUp(history, 170, 95) /\ AllClean(history)
    /\ Len(all_rep_results) = 1
    /\ pc = "done"

\* C6: the same sequence bottoming at 130 degrees yields a RepResult that
\* contains InsufficientDepth and has grade B.
C6_ScenarioB ==
    (exercise = "squat" /\ GoesDownUp(history, 170, 130) /\ AllClean(history))
    => \E i \in DOMAIN all_rep_results :
          /\ "InsufficientDepth" \in all_rep_results[i].errors
          /\ all_rep_results[i].grade = "B"

\* C8: the squat frame that takes stage from 'up' to 'down' leaves in the
\* accumulator only kinds observed in that frame, and a RepResult holds only
\* kinds observed from the start to the end of its repetition.
C8_ClearedAtStart ==
    [][(exercise = "squat" /\ stage = "up" /\ stage' = "down")
       => current_rep_errors' \subseteq frame'.errors]_vars

(***************************************************************************)
(* Lunge properties                                                        *)
(***************************************************************************)
\* C7: from the initial state with both knees above 160 degrees, a frame whose
\* governing knee angle is below 100 makes the stage 'down', and when both knees
\* then exceed 160 the counter is 1 and exactly one RepResult is finalized.
C7_LungeCycle ==
    exercise = "lunge" =>
        /\ (/\ Len(history) = 2
            /\ \A i \in 1..2 : history[i].outcome = "pose"
            /\ history[1].knee > lunge_up_threshold
            /\ history[2].knee < lunge_down_threshold)
           => stage = "down"
        /\ (/\ GoesDownUp(history, 170, 90)
            /\ \A i \in DOMAIN history : history[i].outcome = "pose")
           => (counter = 1 /\ Len(all_rep_results) = 1)

C10_ResultsImmutable ==
    /\ [][/\ \A i \in DOMAIN all_rep_results :
               i \in DOMAIN all_rep_results' /\ all_rep_results'[i] = all_rep_results[i]
          /\ \A i \in DOMAIN all_hold_results :
               i \in DOMAIN all_hold_results' /\ all_hold_results'[i] = all_hold_results[i]]_vars
    /\ [](pc = "done" =>
            /\ \A i \in DOMAIN all_rep_results :
                 all_rep_results[i].grade = get_grade_from_errors(all_rep_results[i].errors)
            /\ \A i \in DOMAIN all_hold_results :
                 all_hold_results[i].grade
                     = get_grade_from_errors(DOMAIN all_hold_results[i].errors))

(***************************************************************************)
(* Session control properties (SpecSession, SpecSessionLive)               *)
(***************************************************************************)
LastRep == all_rep_results[Len(all_rep_results)]
LastHold == all_hold_results[Len(all_hold_results)]

\* C11: when the code after the loop runs while a squat or lunge repetition is
\* open (stage 'down') with k >= 1 accumulated kinds, exactly one RepResult with
\* those kinds and the grade of k (C for two kinds) is appended; an open plank
\* hold of more than 1 second is recorded as one HoldResult in the same way.
C11_OpenFinalized ==
    [][(pc = "ended" /\ pc' = "done") =>
         /\ (exercise \in {"squat", "lunge"} /\ stage = "down" /\ current_rep_errors # {})
            => /\ all_rep_results' =
                    Append(all_rep_results,
                           [rep |-> counter,
                            grade |-> get_grade_from_errors(current_rep_errors),
                            errors |-> current_rep_errors])
               /\ (Cardinality(current_rep_errors) = 2 => LastRep'.grade = "C")
         /\ (exercise = "plank" /\ is_holding /\ now - hold_start_time > plank_min_hold)
            => /\ Len(all_hold_results') = Len(all_hold_results) + 1
               /\ \A i \in DOMAIN all_hold_results :
                     all_hold_results'[i] = all_hold_results[i]
               /\ LastHold'.duration = now - hold_start_time
               /\ LastHold'.grade = get_grade_from_errors(DOMAIN current_hold_errors)
               /\ LastHold'.errors = current_hold_errors]_vars

\* the duration elapsed in the middle of a repetition with two accumulated kinds
C11_Witness ==
    /\ exercise = "squat" /\ pc = "done" /\ stage = "down"
    /\ frame.outcome = "timeout"
    /\ Cardinality(current_rep_errors) = 2
    /\ Len(all_rep_results) = 1
    /\ LastRep = [rep |-> 1, grade |-> "C", errors |-> current_rep_errors]

\* C12: on every frame that is read while the stop predicate or the stop flag is
\* true the loop ends at that frame, also when no pose is detected or the image
\* processing fails.
C12_StopPolled ==
    [][(pc = "loop" /\ frame'.stop /\ frame'.outcome # "read_fail") => pc' = "ended"]_vars

\* C13: the first frame read with elapsed time >= duration ends the loop, with or
\* without a pose and in any phase, and with frames arriving the session always
\* gets past the loop and through the code after it.
C13_Terminates ==
    /\ [][(pc = "loop" /\ frame'.outcome # "read_fail" /\ now' - start_time >= Duration)
          => pc' = "ended"]_vars
    /\ <>(pc = "done")

\* the duration elapsed on a frame without a pose, in the middle of a repetition
C13_Witness ==
    /\ exercise = "squat" /\ pc = "done" /\ stage = "down"
    /\ frame.outcome = "timeout" /\ ~frame.pose

\* C14: a frame with no detected pose leaves stage, is_holding, the counter, the
\* accumulators, the result lists and the governor's timestamps and queue as
\* they were, and no rule is evaluated.
C14_NoPoseNoOp ==
    [][(pc = "loop" /\ ~frame'.pose /\ frame'.outcome \notin {"read_fail", "timeout"})
       => /\ UNCHANGED <<stage, is_holding, hold_start_time, counter, current_rep_errors,
                         current_hold_errors, all_rep_results, all_hold_results,
                         last_feedback_time, last_general_feedback, feedback_queue>>
          /\ frame'.errors = {}
          /\ pc' = "loop"]_vars

\* a frame without a pose in the middle of a repetition that has errors
C14_Witness ==
    /\ exercise = "squat" /\ pc = "loop" /\ stage = "down"
    /\ frame.outcome = "no_pose" /\ ~frame.pose
    /\ current_rep_errors # {}

(***************************************************************************)
(* Worker and teardown properties (SpecWorker and its fair versions)       *)
(***************************************************************************)
\* the capacity a bounded feedback queue would have
QueueCapacity == 3

\* C16: add_feedback and add_encouragement can always be called and return at
\* once, whatever the worker is doing (at its loop test, waiting in get(),
\* inside a speech operation) and however many events are pending.
C16_NeverBlocks ==
    pc = "harness" =>
        /\ \A k \in WorkerKinds : ENABLED WorkerAddFeedback(k)
        /\ ENABLED WorkerAddEncouragement

\* an event accepted behind two pending ones while the worker is speaking
C16_Witness ==
    /\ pc = "harness"
    /\ IsFeedbackCall(call) /\ call.ret = "accept"
    /\ worker_pc = "speak"
    /\ Len(feedback_queue) >= 2

\* C17: the number of pending events stays below a fixed capacity, also when a
\* speech operation lasts longer than the minimum interval between emissions.
C17_QueueBounded == Len(feedback_queue) < QueueCapacity

\* C18: stop() sets running to False and returns after at most join_timeout,
\* also when the worker is stuck in a speech operation or events are pending;
\* the camera release and the report follow.
C18_StopReturns ==
    /\ [](pc \in {"joining", "done"} => ~running)
    /\ [](pc = "joining" => join_waited <= join_timeout)
    /\ [][(pc = "joining" /\ join_waited = join_timeout) => pc' = "done"]_<<pc, join_waited>>
    /\ (pc = "joining" ~> pc = "done")

\* stop() returned by its timeout with the worker still in a speech operation
\* and events still pending
C18_Witness ==
    /\ pc = "done" /\ ~running
    /\ worker_pc = "speak"
    /\ join_waited = join_timeout
    /\ feedback_queue # << >>

\* C19: once running is False the worker dequeues at most one more event, does
\* not enter get() again after its next loop test, and, its speech operation
\* returning, leaves its loop; a worker waiting on the empty queue does so
\* after one poll timeout.
C19_WorkerExits ==
    /\ [](gets_after_stop <= 1)
    /\ [](worker_pc = "get" => worker_waited <= poll_timeout)
    /\ [][(~running /\ worker_pc = "check") => worker_pc' \in {"check", "exited"}]_vars
    /\ (~running ~> worker_pc = "exited")

\* the worker took one more event after stop() and then left its loop, later
\* than the return of stop()
C19_Witness ==
    /\ ~running /\ worker_pc = "exited"
    /\ gets_after_stop = 1
    /\ pc = "done" /\ join_waited = join_timeout

(***************************************************************************)
(* Independence of grading from feedback delivery (SpecDelivery)           *)
(***************************************************************************)
\* stage, counter, accumulator and results of the squat loop
Core ==
    [stage |-> stage, counter |-> counter, errors |-> current_rep_errors,
     start_hip_y |-> rep_start_hip_y, results |-> all_rep_results]

CoreStart ==
    [stage |-> "None", counter |-> 0, errors |-> {}, start_hip_y |-> 0, results |-> << >>]

\* what one frame with a pose makes of them, computed from the frame alone
CoreStep(c, f) ==
    LET finishing == f.knee > squat_up_threshold /\ c.stage = "down"
        stage1 == IF f.knee > squat_up_threshold THEN "up" ELSE c.stage
        starting == f.knee < squat_down_threshold /\ stage1 = "up"
        stage2 == IF starting THEN "down" ELSE stage1
        hip_y == IF starting THEN f.hip_y ELSE c.start_hip_y
        seen == IF stage2 \in {"up", "down"}
                THEN Range(squat_evaluate_errors(f, squat_phase(stage2, f.knee), hip_y))
                ELSE {}
    IN  [stage |-> stage2,
         counter |-> IF starting THEN c.counter + 1 ELSE c.counter,
         errors |-> (IF finishing THEN {} ELSE c.errors) \cup seen,
         start_hip_y |-> hip_y,
         results |-> IF finishing
                     THEN Append(c.results,
                                 [rep |-> c.counter,
                                  grade |-> get_grade_from_errors(c.errors),
                                  errors |-> c.errors])
                     ELSE c.results]

\* the same for a sequence of frames
RECURSIVE Replay(_)
Replay(h) ==
    IF h = << >> THEN CoreStart
    ELSE LET before == Replay(SubSeq(h, 1, Len(h) - 1))
             last == h[Len(h)]
         IN  IF last.outcome = "pose" THEN CoreStep(before, last.f) ELSE before

Finalizations(n) == Cardinality({i \in DOMAIN all_rep_results : all_rep_results[i].rep = n})

\* the n-th 'down' stage is over: a later one began, the knee rose above 160
\* degrees, or the session is past its loop and the code after it
StageOver(n) == n < counter \/ stage # "down" \/ pc = "done"

\* a HoldResult is appended only by a step that ends an open hold or the session
OneResultPerHold ==
    [][Len(all_hold_results') > Len(all_hold_results)
       => /\ is_holding
          /\ Len(all_hold_results') = Len(all_hold_results) + 1
          /\ ~is_holding' \/ pc' = "done"]_vars

C21_StartFailure ==
    /\ [][(pc = "starting" /\ pc' = "returned_none")
          => UNCHANGED <<all_rep_results, all_hold_results, frame, stage, counter,
                         feedback_queue>>]_vars
    /\ [][pc = "returned_none" => pc' \in {"returned_none", "thread_done"}]_vars
    /\ [][(pc = "returned_none" /\ pc' = "thread_done")
          => (gui.error_occurred = 0 /\ gui'.error_occurred = 1)]_vars

(***************************************************************************)
(* Encouragement (SpecGov)                                                 *)
(***************************************************************************)
\* C22: add_encouragement is gated only by the time since the last general
\* emission: it is rejected, changing nothing, when that time is below 5 s
\* (squat, lunge) or 10 s (plank), and otherwise enqueues one event of priority
\* "encouragement" whatever the accumulator and the per-kind timestamps hold,
\* stamping the general timestamp only.
C22_EncouragementGate ==
    [][call'.op = "add_encouragement" =>
         IF now - last_general_feedback
                < (IF exercise = "plank" THEN encouragement_interval_hold
                   ELSE encouragement_interval_rep)
         THEN /\ call'.ret = "reject"
              /\ UNCHANGED <<feedback_queue, last_general_feedback, last_feedback_time>>
         ELSE /\ call'.ret = "accept"
              /\ Len(feedback_queue') = Len(feedback_queue) + 1
              /\ SubSeq(feedback_queue', 1, Len(feedback_queue)) = feedback_queue
              /\ feedback_queue'[Len(feedback_queue')][2] = "encouragement"
              /\ last_general_feedback' = now
              /\ last_feedback_time' = last_feedback_time]_vars

\* an encouragement accepted 5 s after an emission while two kinds are
\* accumulated
C22_Witness ==
    /\ call.op = "add_encouragement" /\ call.ret = "accept"
    /\ attached /\ Cardinality(Accumulated) >= 2
    /\ Len(emitted) >= 2
    /\ emitted[Len(emitted) - 1].time = now - encouragement_interval_rep

(***************************************************************************)
(* The pure functions of the graders, applied to inputs drawn from bounded *)
(* sets: get_grade_from_errors on lists of kinds (repeats included) and on *)
(* the keys of a plank Counter.                                            *)
(***************************************************************************)
\* longest list of errors handed to the grader
MaxErrors == 4

\* largest occurrence count of a kind in a Counter
MaxCount == 2

GradeKinds(ex) == Range(priority_order(ex))

GradeLists(ex) == UNION {[1..n -> GradeKinds(ex)] : n \in 0..MaxErrors}

GradeCounters == UNION {[S -> 1..MaxCount] : S \in SUBSET GradeKinds("plank")}

PureInit ==
    /\ exercise \in Exercises
    /\ pc = "pure"
    /\ now = Epoch
    /\ start_time = Epoch
    /\ last_feedback_time = << >>
    /\ last_general_feedback = 0
    /\ feedback_queue = << >>
    /\ emitted = << >>
    /\ attached = FALSE
    /\ current_rep_errors = {}
    /\ current_hold_errors = << >>
    /\ IdleLoop
    /\ call = NoCall
    /\ running = FALSE /\ worker_pc = "none" /\ worker_waited = 0
    /\ join_waited = 0 /\ gets_after_stop = 0
    /\ gui = NewThread

pureVars == <<exercise, now, start_time, last_feedback_time, last_general_feedback,
              feedback_queue, attached, current_rep_errors, current_hold_errors, stage,
              counter, rep_start_hip_y, all_rep_results, is_holding, hold_start_time,
              all_hold_results, frame, history, emitted, running, worker_pc,
              worker_waited, join_waited, gets_after_stop, gui>>

\* grader.get_grade_from_errors(errors) on a list
GradeList ==
    /\ pc = "pure" /\ pc' = "applied"
    /\ \E errors \in GradeLists(exercise) :
          call' = [op |-> "get_grade_from_errors", args |-> errors,
                   ret |-> get_grade_from_list(errors)]
    /\ UNCHANGED pureVars

\* grader.get_grade_from_errors(list(current_hold_errors.keys())): the keys
\* of the Counter in their order of insertion, whatever the counts
GradeHold ==
    /\ pc = "pure" /\ pc' = "applied" /\ exercise = "plank"
    /\ \E c \in GradeCounters :
          \E keys \in GradeLists("plank") :
             /\ Range(keys) = DOMAIN c
             /\ Len(keys) = Cardinality(DOMAIN c)
             /\ call' = [op |-> "hold_grade", args |-> c,
                         ret |-> get_grade_from_list(keys)]
    /\ UNCHANGED pureVars

GradeNext == GradeList \/ GradeHold

SpecGrade == PureInit /\ [][GradeNext]_vars

\* the table of grades by number of distinct kinds
GradeTable(n) ==
    CASE n = 0 -> "A" [] n = 1 -> "B" [] n = 2 -> "C" [] n = 3 -> "D" [] OTHER -> "F"

\* C23: get_grade_from_errors answers every list of errors, by the number
\* of distinct kinds alone: none A, one B, two C, three D, four or more F,
\* repeated kinds counted once; the grade of a plank hold is the same
\* function of the kinds of its Counter, whatever their counts.
C23_GradeTotal ==
    /\ call.op = "get_grade_from_errors" =>
          call.ret = GradeTable(Cardinality({call.args[i] : i \in DOMAIN call.args}))
    /\ call.op = "hold_grade" =>
          call.ret = GradeTable(Cardinality(DOMAIN call.args))

C23_Witness ==
    /\ call.op = "get_grade_from_errors"
    /\ Len(call.args) = 4
    /\ Cardinality({call.args[i] : i \in DOMAIN call.args}) = 2
    /\ call.ret = "C"

\* A best, F worst
GradeRank(g) ==
    CASE g = "A" -> 0 [] g = "B" -> 1 [] g = "C" -> 2 [] g = "D" -> 3 [] g = "F" -> 4

\* C24: the grade never improves with more distinct kinds: against a call
\* of the grader, any collection with at least as many distinct kinds is
\* graded no better, and any with at most as many no worse (A best, F
\* worst).
C24_Monotonic ==
    call.op = "get_grade_from_errors" =>
       \A S \in SUBSET GradeKinds(exercise) :
          LET other == get_priority_order(exercise, S)
              n == Cardinality({call.args[i] : i \in DOMAIN call.args})
          IN  /\ Cardinality(S) >= n =>
                    GradeRank(get_grade_from_list(other)) >= GradeRank(call.ret)
              /\ Cardinality(S) <= n =>
                    GradeRank(get_grade_from_list(other)) <= GradeRank(call.ret)

C24_Witness ==
    /\ call.op = "get_grade_from_errors"
    /\ Cardinality({call.args[i] : i \in DOMAIN call.args}) = 3
    /\ call.ret = "D"

\* the step that clears the accumulator: the squat rep completed, the plank
\* hold entered
IntervalReset ==
    IF exercise = "squat" THEN stage = "down" /\ stage' = "up"
    ELSE ~is_holding /\ is_holding'

\* C25: within an interval the distinct kinds of the squat and plank
\* accumulators only grow: no step other than the interval's reset removes
\* a kind, a frame adds at most its own kinds, and a frame whose kinds are
\* all recorded already leaves the distinct set and the grade as they were.
C25_AccumulatorGrows ==
    [][(exercise \in {"squat", "plank"} /\ ~IntervalReset)
       => /\ Accumulated \subseteq Accumulated'
          /\ Accumulated' \subseteq Accumulated \cup frame'.errors
          /\ frame'.errors \subseteq Accumulated
                => /\ Accumulated' = Accumulated
                   /\ get_grade_from_errors(Accumulated')
                        = get_grade_from_errors(Accumulated)]_vars

\* a kind recorded in two frames of one hold, then a frame without it
C25_Witness ==
    /\ exercise = "plank" /\ pc = "loop"
    /\ frame.outcome = "pose" /\ frame.errors = {}
    /\ is_holding
    /\ \E k \in DOMAIN current_hold_errors : current_hold_errors[k] >= 2

(***************************************************************************)
(* The squat ruleset as a function: evaluate_errors applied to landmarks   *)
(* and angles on either side of every threshold, in each phase the frame   *)
(* loop can pass.                                                          *)
(***************************************************************************)
SquatPhases == {"READY", "DESCEND", "BOTTOM", "ASCEND"}

\* landmarks and angles on both sides of each rule's threshold
RuleSquatFrames ==
    {[CleanSquatFrame(k) EXCEPT !.hip = h, !.knee_dist = kd, !.torso = t,
                                !.heel_vis = hv, !.hip_off = ho, !.ankle = a,
                                !.hip_y = hy, !.shoulder_y = sy] :
        k \in {85, 130}, h \in {60, 90}, kd \in {80, 100}, t \in {40, 80},
        hv \in {60, 100}, ho \in {0, 40}, a \in {70, 85}, hy \in {340, 400},
        sy \in {200, 390}}

\* grader.evaluate_errors(lm_data, angles, current_phase, rep_start_hip_y)
EvalSquat ==
    /\ pc = "pure" /\ pc' = "applied" /\ exercise = "squat"
    /\ \E f \in RuleSquatFrames, phase \in SquatPhases :
          call' = [op |-> "evaluate_errors",
                   args |-> [angles |-> f, phase |-> phase, rep_start_hip_y |-> 400],
                   ret |-> squat_evaluate_errors(f, phase, 400)]
    /\ UNCHANGED pureVars

\* the largest value calculate_angle returns
MaxAngle == 180

AngleValues == 0..MaxAngle

\* the same landmarks and angles with the knee angle anywhere in its range
LoopSquatFrames == {[f EXCEPT !.knee = k] : f \in RuleSquatFrames, k \in AngleValues}

\* stage after the loop's two transitions on a frame's knee angle
LoopStage(st, knee_angle) ==
    LET stage1 == IF knee_angle > squat_up_threshold THEN "up" ELSE st
    IN  IF squat_starts(knee_angle, stage1) THEN "down" ELSE stage1

\* the loop's call of evaluate_errors: the phase computed from the stage
\* and the knee angle of the same frame
EvalSquatLoop ==
    /\ pc = "pure" /\ pc' = "applied" /\ exercise = "squat"
    /\ \E st \in {"None", "up", "down"}, f \in LoopSquatFrames :
          LET stage2 == LoopStage(st, f.knee)
              phase == squat_phase(stage2, f.knee)
          IN  /\ stage2 \in {"up", "down"}
              /\ call' = [op |-> "loop_evaluate",
                          args |-> [angles |-> f, stage |-> stage2, phase |-> phase],
                          ret |-> squat_evaluate_errors(f, phase, 400)]
    /\ UNCHANGED pureVars

\* plank angles on both sides of each threshold, the body angle anywhere
RulePlankFrames ==
    {[CleanPlankFrame EXCEPT !.body = b, !.neck = n, !.arm = a, !.leg = l,
                             !.elbow_off = e] :
        b \in AngleValues, n \in {140, 170}, a \in {50, 90}, l \in {140, 170},
        e \in {10, 100}}

\* the plank loop's call of evaluate_errors, behind the postural gate
EvalPlank ==
    /\ pc = "pure" /\ pc' = "applied" /\ exercise = "plank"
    /\ \E f \in RulePlankFrames :
          /\ is_plank_pose(f)
          /\ call' = [op |-> "loop_evaluate", args |-> [angles |-> f, stage |-> "hold",
                                                       phase |-> "hold"],
                      ret |-> plank_evaluate_errors(f)]
    /\ UNCHANGED pureVars

RulesNext == EvalSquat \/ EvalSquatLoop \/ EvalPlank

RulesInit == PureInit /\ exercise \in {"squat", "plank"}

SpecRules == RulesInit /\ [][RulesNext]_vars

\* the levels of the squat ruleset
SquatEffectiveness == {"ExcessiveForwardLean", "HeelLift", "PelvicShift"}

SquatOptimization == {"InsufficientDepth", "AnkleMobility"}

\* C26: the squat ruleset is gated by phase: in READY evaluate_errors
\* returns nothing, Safety kinds come only in DESCEND, BOTTOM or ASCEND,
\* Effectiveness kinds only in DESCEND or BOTTOM, Optimization kinds only
\* in BOTTOM.
C26_PhaseGating ==
    call.op = "evaluate_errors" =>
       LET phase == call.args.phase
           errors == Range(call.ret)
       IN  /\ errors \subseteq Range(squat_priority_order)
           /\ phase = "READY" => errors = {}
           /\ errors \cap safety_errors("squat") # {}
                 => phase \in {"DESCEND", "BOTTOM", "ASCEND"}
           /\ errors \cap SquatEffectiveness # {} => phase \in {"DESCEND", "BOTTOM"}
           /\ errors \cap SquatOptimization # {} => phase = "BOTTOM"

C26_Witness ==
    /\ call.op = "evaluate_errors"
    /\ call.args.phase = "ASCEND"
    /\ call.args.angles.heel_vis < 70 /\ call.args.angles.torso < 45
    /\ call.args.angles.ankle > 80
    /\ Range(call.ret) = {"LumbarRounding", "KneeValgus", "GoodMorningSquat"}

(***************************************************************************)
(* calculate_angle on points of a small grid.  Angles are in hundredths of *)
(* a degree; np.arctan2 is tabulated for the directions the grid has       *)
(* (multiples of 45 degrees exactly, the others to the hundredth).         *)
(***************************************************************************)
Abs(x) == IF x < 0 THEN -x ELSE x

\* coordinates of the points
GridCoords == {0, 1, 2}

GridPoints == GridCoords \X GridCoords

\* arctan(p / q) for 0 <= p <= q, 0 < q
OctantAngle(p, q) ==
    IF p = 0 THEN 0
    ELSE IF p = q THEN 4500
    ELSE 2657

\* arctan2 of non-negative components, not both zero
QuadrantAngle(ady, adx) ==
    IF ady <= adx THEN OctantAngle(ady, adx) ELSE 9000 - OctantAngle(adx, ady)

\* np.arctan2(dy, dx) in (-180, 180], 0 for the zero vector
arctan2(dy, dx) ==
    IF dx = 0 /\ dy = 0 THEN 0
    ELSE LET t == QuadrantAngle(Abs(dy), Abs(dx))
         IN  IF dx >= 0 /\ dy >= 0 THEN t
             ELSE IF dx < 0 /\ dy >= 0 THEN 18000 - t
             ELSE IF dx < 0 THEN t - 18000
             ELSE -t

\* radians * 180.0 / np.pi of calculate_angle
ray_difference(a, b, c) ==
    arctan2(c[2] - b[2], c[1] - b[1]) - arctan2(a[2] - b[2], a[1] - b[1])

\* the fold of values above 180 left out
calculate_angle_nofold(a, b, c) ==
    Abs(ray_difference(a, b, c))

\* np.abs left out
calculate_angle_signed(a, b, c) ==
    LET angle == ray_difference(a, b, c)
    IN  IF angle > 18000 THEN 36000 - angle ELSE angle

calculate_angle(a, b, c) ==
    LET angle == Abs(ray_difference(a, b, c))
    IN  IF angle > 18000 THEN 36000 - angle ELSE angle

\* calculate_angle(a, b, c)
EvalAngle ==
    /\ pc = "pure" /\ pc' = "applied"
    /\ \E a \in GridPoints, b \in GridPoints, c \in GridPoints :
          call' = [op |-> "calculate_angle", args |-> <<a, b, c>>,
                   ret |-> calculate_angle(a, b, c)]
    /\ UNCHANGED pureVars

AngleNext == EvalAngle

SpecAngle == PureInit /\ [][AngleNext]_vars

\* C27: calculate_angle returns a value in [0,180] for every triple of
\* points: the absolute difference of the two ray directions is in [0,360)
\* and the result is that difference, or 360 minus it when it is above 180.
C27_AngleRange ==
    call.op = "calculate_angle" =>
       LET diff == Abs(ray_difference(call.args[1], call.args[2], call.args[3]))
       IN  /\ diff >= 0 /\ diff < 36000
           /\ call.ret = IF diff > 18000 THEN 36000 - diff ELSE diff
           /\ call.ret >= 0 /\ call.ret <= 18000

\* a reflex difference (270 degrees) folded to 90
C27_Witness ==
    /\ call.op = "calculate_angle"
    /\ Abs(ray_difference(call.args[1], call.args[2], call.args[3])) = 27000
    /\ call.ret = 9000

\* C28: calculate_angle is symmetric in its outer points:
\* calculate_angle(a, b, c) = calculate_angle(c, b, a) for all a, b, c.
C28_AngleSymmetric ==
    call.op = "calculate_angle" =>
       call.ret = calculate_angle(call.args[3], call.args[2], call.args[1])

\* distinct outer points, the difference of the rays negative one way round
C28_Witness ==
    /\ call.op = "calculate_angle"
    /\ call.args[1] # call.args[3]
    /\ ray_difference(call.args[1], call.args[2], call.args[3]) < 0
    /\ call.ret = 13500

(***************************************************************************)
(* Squat and plank sessions whose frames accumulate two kinds and then     *)
(* show a Safety kind; history keeps the accumulator as it was before the  *)
(* frame.                                                                  *)
(***************************************************************************)
NagSquatFrames ==
    {CleanSquatFrame(170), CleanSquatFrame(95),
     [CleanSquatFrame(95) EXCEPT !.knee_dist = 80, !.torso = 40],
     [CleanSquatFrame(95) EXCEPT !.torso = 40, !.heel_vis = 60],
     [CleanSquatFrame(95) EXCEPT !.hip = 60],
     [CleanSquatFrame(95) EXCEPT !.hip = 60, !.knee_dist = 80]}

NagPlankFrames ==
    {CleanPlankFrame,
     [CleanPlankFrame EXCEPT !.neck = 140, !.leg = 140],
     [CleanPlankFrame EXCEPT !.body = 140],
     [CleanPlankFrame EXCEPT !.body = 140, !.leg = 140],
     [CleanPlankFrame EXCEPT !.shoulder_y = 400]}

NagSquatLoop ==
    /\ \E dt \in SessionSteps, f \in NagSquatFrames, stop \in BOOLEAN :
          SquatFrame(dt, f, stop)
    /\ history' = <<current_rep_errors>>

NagPlankLoop ==
    /\ \E dt \in SessionSteps, f \in NagPlankFrames, stop \in BOOLEAN :
          PlankFrame(dt, f, stop)

NagInit == SessionInit("squat") \/ SessionInit("plank")

NagNext == NagSquatLoop \/ NagPlankLoop \/ SquatEnd \/ PlankFinish

SpecNag == NagInit /\ [][NagNext]_vars

\* the correction events of a log
Corrections(log) == SelectSeq(log, LAMBDA e : e.kind \in Range(priority_order(exercise)))

\* C29: in the squat and plank loops, while the accumulator holds two or
\* more distinct kinds no correction is enqueued until it is cleared: a
\* frame step that starts with two or more accumulated kinds and is not
\* the reset step adds no correction to the queue, not even a Safety kind
\* with both cooldowns elapsed.
C29_NoNagging ==
    [][(exercise \in {"squat", "plank"} /\ Cardinality(Accumulated) >= 2 /\ ~IntervalReset)
       => /\ Corrections(emitted') = Corrections(emitted)
          /\ \A i \in (Len(feedback_queue) + 1)..Len(feedback_queue') :
                feedback_queue'[i][2] = "encouragement"]_vars

\* a Safety kind first seen after two others, never spoken, with the
\* interval since the last message elapsed
C29_Witness ==
    /\ exercise = "squat" /\ pc = "loop" /\ stage = "down"
    /\ history # << >> /\ Cardinality(history[1]) >= 2
    /\ "LumbarRounding" \in frame.errors \ history[1]
    /\ "LumbarRounding" \notin DOMAIN last_feedback_time
    /\ now - last_general_feedback >= min_feedback_interval

\* some frame of the loop makes the ruleset return the kind
Returned(k) ==
    IF exercise = "squat"
    THEN \E st \in {"None", "up", "down"}, f \in LoopSquatFrames :
            LET stage2 == LoopStage(st, f.knee)
            IN  /\ stage2 \in {"up", "down"}
                /\ k \in Range(squat_evaluate_errors(f, squat_phase(stage2, f.knee), 400))
    ELSE \E f \in RulePlankFrames :
            is_plank_pose(f) /\ k \in Range(plank_evaluate_errors(f))

\* C30: every kind of the priority order of the squat and of the plank is
\* detectable: for each kind there is a loop state (the phase computed by
\* the frame loop) and angles in [0,180] for which the ruleset returns it,
\* InsufficientDepth and HipSag included.
C30_EveryKindDetectable ==
    \A k \in Range(priority_order(exercise)) : Returned(k)

\* neither kind is in any answer of the ruleset
C30_NeverReturned ==
    call.op = "loop_evaluate" =>
       Range(call.ret) \cap {"InsufficientDepth", "HipSag"} = {}

\* C31: at the termination of a squat or lunge session the repetition
\* count handed to save_report equals the number of results handed with
\* it, whatever the stage and the accumulator were when the loop ended.
C31_ReportCount ==
    (pc = "done" /\ exercise \in {"squat", "lunge"}) => counter = Len(all_rep_results)

(***************************************************************************)
(* Squat sessions on knee angles at and around the two thresholds, for the *)
(* repetition counter and the stage.                                       *)
(***************************************************************************)
CountSquatFrames ==
    {CleanSquatFrame(k) : k \in {170, 161, 160, 130, 100, 99, 95}}
    \cup {[CleanSquatFrame(95) EXCEPT !.hip = 60],
          [CleanSquatFrame(130) EXCEPT !.hip = 60],
          [CleanSquatFrame(170) EXCEPT !.pose = FALSE]}

CountSteps == {5}

CountLoop ==
    /\ \E dt \in CountSteps, f \in CountSquatFrames, stop \in BOOLEAN :
          SquatFrame(dt, f, stop)
    /\ UNCHANGED history

CountNext == CountLoop \/ SquatEnd

SpecCount == SquatInit /\ [][CountNext]_vars

\* C32: squat: after every processed frame counter - len(all_rep_results)
\* is 1 when stage is 'down' and 0 otherwise.
C32_CounterAhead ==
    (exercise = "squat" /\ pc \in {"loop", "ended"})
       => counter - Len(all_rep_results) = IF stage = "down" THEN 1 ELSE 0

\* in the second descent, the first repetition recorded
C32_Witness ==
    /\ exercise = "squat" /\ pc = "loop" /\ stage = "down"
    /\ counter = 2 /\ Len(all_rep_results) = 1

\* C33: squat: the results of a session carry, in the order they were
\* appended, the indices 1, 2, ..., n, the one appended by the finalization
\* after the loop included.
C33_IndicesSequential ==
    exercise = "squat" =>
       \A i \in DOMAIN all_rep_results : all_rep_results[i].rep = i

\* a second repetition appended by the finalization after the loop
C33_Witness ==
    /\ exercise = "squat" /\ pc = "done" /\ stage = "down"
    /\ current_rep_errors # {}
    /\ Len(all_rep_results) = 2 /\ all_rep_results[2].rep = 2

\* C34: squat hysteresis: a processed frame with the knee angle in
\* [100,160] changes neither stage, counter nor results; the stage changes
\* only to 'up' on a frame with knee > 160 or to 'down' on a frame with
\* knee < 100 while it is 'up'; from the initial stage a frame with
\* knee < 100 changes nothing.
C34_Hysteresis ==
    [][(exercise = "squat" /\ pc = "loop" /\ frame'.outcome = "pose")
       => /\ (frame'.knee >= 100 /\ frame'.knee <= 160)
                => UNCHANGED <<stage, counter, all_rep_results>>
          /\ stage' # stage
                => \/ frame'.knee > 160 /\ stage' = "up"
                   \/ frame'.knee < 100 /\ stage = "up" /\ stage' = "down"
          /\ (stage = "None" /\ frame'.knee < 100)
                => UNCHANGED <<stage, counter, all_rep_results>>]_vars

\* a frame at exactly 160 degrees processed in the descent
C34_Witness ==
    /\ exercise = "squat" /\ pc = "loop" /\ stage = "down"
    /\ frame.outcome = "pose" /\ frame.knee = 160

\* C35: in each exercise the kinds get_error_priority tags urgent are a
\* prefix of the priority order, so every urgent kind precedes every normal
\* kind in get_priority_order; and a correction is enqueued with priority
\* urgent exactly when its kind is in that prefix.
C35_UrgentPrefix ==
    /\ \A ex \in Exercises :
          LET order == priority_order(ex)
              urgent == {k \in Range(order) : get_error_priority(ex, k) = "urgent"}
          IN  /\ urgent = {order[i] : i \in 1..Cardinality(safety_errors(ex))}
              /\ \A a \in urgent, b \in Range(order) \ urgent :
                    /\ get_error_priority(ex, b) = "normal"
                    /\ get_priority_order(ex, {a, b}) = <<a, b>>
    /\ \A i \in DOMAIN emitted :
          emitted[i].kind \in Range(priority_order(exercise))
             => (emitted[i].priority = "urgent"
                   <=> emitted[i].kind \in safety_errors(exercise))
    /\ \A i \in DOMAIN feedback_queue :
          feedback_queue[i][2] \in {"urgent", "normal", "encouragement"}

\* an urgent and a normal correction enqueued in one session
C35_Witness ==
    /\ \E i \in DOMAIN emitted : emitted[i].priority = "urgent"
    /\ \E i \in DOMAIN emitted : emitted[i].priority = "normal"
    /\ Len(feedback_queue) = Len(emitted)

(***************************************************************************)
(* The three rulesets against the governor's tables: every answer of       *)
(* evaluate_errors, in each exercise.                                      *)
(***************************************************************************)
\* lunge landmarks and angles on both sides of each rule's threshold
RuleLungeFrames ==
    {[CleanLungeFrame(kn[1], kn[2]) EXCEPT !.shoulder_line = sl, !.torso = t,
                                           !.front_ankle = fa, !.left_knee_x = lx,
                                           !.right_knee_x = rx, !.right_ankle_x = ra] :
        kn \in {<<90, 110>>, <<110, 90>>, <<120, 130>>}, sl \in {180, 160},
        t \in {80, 60}, fa \in {80, 95}, lx \in {300, 260, 340},
        rx \in {200, 240, 160}, ra \in {200, 290}}

\* grader.evaluate_errors(angles, lm_data, front_leg) of the lunge
EvalLunge ==
    /\ pc = "pure" /\ pc' = "applied" /\ exercise = "lunge"
    /\ \E f \in RuleLungeFrames :
          call' = [op |-> "loop_evaluate",
                   args |-> [angles |-> f, stage |-> "down", phase |-> "DOWN"],
                   ret |-> lunge_evaluate_errors(f)]
    /\ UNCHANGED pureVars

TablesNext == EvalSquat \/ EvalPlank \/ EvalLunge

SpecTables == PureInit /\ [][TablesNext]_vars

\* C36: every kind a ruleset returns is in the priority order and in the
\* message table of its exercise, so for every accumulator of two or more
\* returned kinds get_priority_order is not empty and add_feedback does not
\* fail in its arbitration step.
C36_TablesComplete ==
    call.op \in {"evaluate_errors", "loop_evaluate"} =>
       LET errors == Range(call.ret)
       IN  /\ errors \subseteq Range(priority_order(exercise))
           /\ \A k \in errors : Message(exercise, k) = <<"message", k>>
           /\ \A acc \in SUBSET errors :
                 Cardinality(acc) >= 2 =>
                    /\ get_priority_order(exercise, acc) # << >>
                    /\ \A k \in errors :
                          add_feedback_result(Gov, exercise, k, now, TRUE, acc) # "raise"

\* an answer of the lunge ruleset with a kind twice and others besides
C36_Witness ==
    /\ call.op = "loop_evaluate" /\ exercise = "lunge"
    /\ Len(call.ret) > Cardinality(Range(call.ret))
    /\ Cardinality(Range(call.ret)) >= 3

(***************************************************************************)
(* MainWindow: the preview CameraThread, start_analysis with its delayed   *)
(* start, the ExerciseAnalyzerThread running a session, stop_analysis.     *)
(* The record gui holds the window's state next to the analyzer thread's   *)
(* flag and signals; the session of the first analyzer thread is the one   *)
(* of pc, any further thread is only counted.                              *)
(***************************************************************************)
\* self.wait(5000) of ExerciseAnalyzerThread.stop, in ticks
analyzer_wait == 25

\* calls of start_analysis in one behaviour
MaxStarts == 2

NewWindow ==
    [running |-> TRUE, error_occurred |-> 0, analysis_finished |-> 0,
     preview |-> TRUE,          \* a CameraThread runs and holds the camera
     timers |-> 0,              \* singleShot timers not yet fired
     others |-> 0,              \* analyzer threads started beside the first
     current |-> "none",        \* the thread self.analyzer_thread refers to
     starts |-> 0,
     start_enabled |-> TRUE, stop_enabled |-> FALSE,
     win |-> "idle",            \* "stopping": the GUI thread inside stop()
     stop_at |-> 0, handled |-> 0]

WindowInit ==
    /\ exercise \in Exercises
    /\ pc = "idle"
    /\ now = Epoch
    /\ start_time = Epoch
    /\ last_feedback_time = << >>
    /\ last_general_feedback = 0
    /\ feedback_queue = << >>
    /\ emitted = << >>
    /\ attached = FALSE
    /\ current_rep_errors = {}
    /\ current_hold_errors = << >>
    /\ stage = "None" /\ counter = 0 /\ rep_start_hip_y = 0
    /\ all_rep_results = << >> /\ is_holding = FALSE /\ hold_start_time = 0
    /\ all_hold_results = << >>
    /\ frame = [outcome |-> "none", knee |-> 0, errors |-> {}, pose |-> TRUE,
                stop |-> FALSE]
    /\ history = << >>
    /\ call = NoCall
    /\ running = FALSE /\ worker_pc = "none" /\ worker_waited = 0
    /\ join_waited = 0 /\ gets_after_stop = 0
    /\ gui = NewWindow

windowRest == <<startVars, now, start_time, govVars, running, worker_pc>>

\* isRunning() of the first analyzer thread
AnalyzerAlive == pc \notin {"idle", "thread_done"}

\* the session holds the camera from cv2.VideoCapture to cap.release()
AnalysisHoldsCamera == pc \in {"loop", "ended"}

\* start_analysis: the preview thread stopped and waited for, the delayed
\* start scheduled; the start button stays enabled
StartAnalysis ==
    /\ gui.win = "idle" /\ gui.start_enabled
    /\ gui.starts < MaxStarts
    /\ gui' = [gui EXCEPT !.preview = FALSE, !.timers = @ + 1, !.starts = @ + 1]
    /\ UNCHANGED <<pc, windowRest>>

\* _start_analysis_delayed: a new ExerciseAnalyzerThread created and started
StartDelayed ==
    /\ gui.win = "idle" /\ gui.timers > 0
    /\ IF pc = "idle"
       THEN /\ pc' = "starting"
            /\ gui' = [gui EXCEPT !.timers = @ - 1, !.running = TRUE,
                                  !.current = "first",
                                  !.start_enabled = FALSE, !.stop_enabled = TRUE]
       ELSE /\ pc' = pc
            /\ gui' = [gui EXCEPT !.timers = @ - 1, !.others = @ + 1,
                                  !.current = "other",
                                  !.start_enabled = FALSE, !.stop_enabled = TRUE]
    /\ UNCHANGED windowRest

\* the end of stop_analysis: start_camera and the buttons
Restart(g) ==
    [g EXCEPT !.preview = TRUE, !.start_enabled = TRUE, !.stop_enabled = FALSE,
              !.win = "idle"]

\* stop_analysis: analyzer_thread.stop() if it is running (the flag cleared,
\* then the wait), and the rest
StopBody(g) ==
    IF g.current = "first" /\ AnalyzerAlive
    THEN gui' = [g EXCEPT !.running = FALSE, !.win = "stopping", !.stop_at = now]
    ELSE IF g.current = "other" /\ g.others > 0
    THEN \E stopped \in BOOLEAN :
            gui' = Restart([g EXCEPT !.others = IF stopped THEN @ - 1 ELSE @])
    ELSE gui' = Restart(g)

\* the stop button
StopAnalysis ==
    /\ gui.win = "idle" /\ gui.stop_enabled
    /\ StopBody(gui)
    /\ UNCHANGED <<pc, windowRest>>

\* on_analysis_finished / on_analysis_error: stop_analysis(True)
OnSignal ==
    /\ gui.win = "idle"
    /\ gui.handled < gui.error_occurred + gui.analysis_finished
    /\ StopBody([gui EXCEPT !.handled = @ + 1])
    /\ UNCHANGED <<pc, windowRest>>

\* wait(5000) returns: the thread finished or the five seconds passed
StopWaitDone ==
    /\ gui.win = "stopping"
    /\ pc = "thread_done" \/ now - gui.stop_at >= analyzer_wait
    /\ gui' = Restart(gui)
    /\ UNCHANGED <<pc, windowRest>>

\* the frame loop of the first thread; no frame starts once a wait of the
\* GUI thread has run out
WindowLoop ==
    /\ gui.win = "stopping" => now - gui.stop_at < analyzer_wait
    /\ ThreadLoop

WindowNext ==
    \/ StartAnalysis
    \/ StartDelayed
    \/ CallRaises
    \/ AcquireFails
    \/ RunStarts
    \/ WindowLoop
    \/ SquatEnd
    \/ ThreadReturns
    \/ StopAnalysis
    \/ OnSignal
    \/ StopWaitDone

SpecWindow == WindowInit /\ [][WindowNext]_vars

\* C37: the preview CameraThread and an analysis session never hold the
\* camera at the same time, for every interleaving of stop requests and
\* frames, frames with no pose detected included.
C37_CameraExclusive ==
    ~(gui.preview /\ AnalysisHoldsCamera)

\* C38: at most one ExerciseAnalyzerThread is pending or running at any
\* time, the delay before _start_analysis_delayed included.
C38_OneAnalyzer ==
    gui.timers + gui.others + (IF AnalyzerAlive THEN 1 ELSE 0) <= 1

(***************************************************************************)
(* CameraThread: the run loop reading frames under its mutex, and stop()   *)
(* called from the GUI thread.  The record gui holds the thread's state.   *)
(***************************************************************************)
\* frames read in one behaviour
MaxFrames == 3

NewCamera ==
    [running |-> TRUE,          \* self.running
     cam_pc |-> "top",          \* position of run()
     mutex |-> "free",          \* "free", or the thread holding it
     stop_pc |-> "idle",        \* position of stop()
     frame_count |-> 0,
     reads_after_stop |-> 0]    \* cap.read() calls made with running False

CameraInit ==
    /\ exercise = "squat"
    /\ pc = "preview"
    /\ now = Epoch
    /\ start_time = Epoch
    /\ last_feedback_time = << >>
    /\ last_general_feedback = 0
    /\ feedback_queue = << >>
    /\ emitted = << >>
    /\ attached = FALSE
    /\ current_rep_errors = {}
    /\ current_hold_errors = << >>
    /\ IdleLoop
    /\ call = NoCall
    /\ running = FALSE /\ worker_pc = "none" /\ worker_waited = 0
    /\ join_waited = 0 /\ gets_after_stop = 0
    /\ gui = NewCamera

cameraRest == <<pc, windowRest>>

\* while self.running
CamTop ==
    /\ pc = "preview" /\ gui.cam_pc = "top"
    /\ gui' = [gui EXCEPT !.cam_pc = IF gui.running THEN "lock" ELSE "exited"]
    /\ UNCHANGED cameraRest

\* self.mutex.lock(): blocks while the mutex is held, by whichever thread
CamLock ==
    /\ pc = "preview" /\ gui.cam_pc = "lock" /\ gui.mutex = "free"
    /\ gui' = [gui EXCEPT !.cam_pc = "check", !.mutex = "camera"]
    /\ UNCHANGED cameraRest

\* if not self.running: unlock, break
CamCheck ==
    /\ pc = "preview" /\ gui.cam_pc = "check"
    /\ gui' = IF gui.running THEN [gui EXCEPT !.cam_pc = "read"]
              ELSE [gui EXCEPT !.cam_pc = "exited", !.mutex = "free"]
    /\ UNCHANGED cameraRest

\* ret, frame = self.cap.read(); self.mutex.unlock(); the rest of the body
CamRead ==
    /\ pc = "preview" /\ gui.cam_pc = "read"
    /\ \E ret \in BOOLEAN :
          /\ ret => gui.frame_count < MaxFrames
          /\ gui' = [gui EXCEPT !.cam_pc = "sleep", !.mutex = "free",
                               !.frame_count = IF ret THEN @ + 1 ELSE @,
                               !.reads_after_stop = IF gui.running THEN @ ELSE @ + 1]
    /\ UNCHANGED cameraRest

\* self.cap.read() raises: the handler's tryLock() fails on the mutex the
\* thread itself holds (a QMutex is not recursive), so nothing unlocks it
CamReadRaises ==
    /\ pc = "preview" /\ gui.cam_pc = "read"
    /\ gui' = [gui EXCEPT !.cam_pc = "sleep",
                          !.reads_after_stop = IF gui.running THEN @ ELSE @ + 1]
    /\ UNCHANGED cameraRest

\* time.sleep(0.033)
CamSleep ==
    /\ pc = "preview" /\ gui.cam_pc = "sleep"
    /\ gui' = [gui EXCEPT !.cam_pc = "top"]
    /\ UNCHANGED cameraRest

\* stop() is called
StopCall ==
    /\ pc = "preview" /\ gui.stop_pc = "idle"
    /\ gui' = [gui EXCEPT !.stop_pc = "lock"]
    /\ UNCHANGED cameraRest

\* stop(): self.mutex.lock()
StopLock ==
    /\ pc = "preview" /\ gui.stop_pc = "lock" /\ gui.mutex = "free"
    /\ gui' = [gui EXCEPT !.stop_pc = "locked", !.mutex = "stopper"]
    /\ UNCHANGED cameraRest

\* stop(): self.running = False; self.mutex.unlock()
StopSet ==
    /\ pc = "preview" /\ gui.stop_pc = "locked"
    /\ gui' = [gui EXCEPT !.stop_pc = "wait", !.running = FALSE, !.mutex = "free"]
    /\ UNCHANGED cameraRest

\* stop(): cleanup, quit, wait(3000) and the return
StopReturn ==
    /\ pc = "preview" /\ gui.stop_pc = "wait"
    /\ gui' = [gui EXCEPT !.stop_pc = "returned"]
    /\ UNCHANGED cameraRest

CameraNext ==
    \/ CamTop
    \/ CamLock
    \/ CamCheck
    \/ CamRead
    \/ CamReadRaises
    \/ CamSleep
    \/ StopCall
    \/ StopLock
    \/ StopSet
    \/ StopReturn

SpecCamera == CameraInit /\ [][CameraNext]_vars

\* C39: the mutex of CameraThread is released at the end of every
\* iteration of the run loop on every path, also when the frame read
\* raises under the mutex, so that stop() can always acquire it; and after
\* stop() has cleared running under the mutex the loop makes no cap.read().
C39_MutexReleased ==
    /\ gui.cam_pc \in {"sleep", "top", "lock", "exited"} => gui.mutex # "camera"
    /\ gui.reads_after_stop = 0

\* C39, the part about reads: none after stop() cleared running
C39_NoReadAfterStop ==
    gui.reads_after_stop = 0

\* stop() waiting for a mutex that the run loop will never release
C39_StopBlocked ==
    ~(gui.stop_pc = "lock" /\ gui.mutex = "camera" /\ gui.cam_pc = "lock")

====
